---- MODULE Spec2Model ----
(***************************************************************************)
(* A model of the constraint-system builder of binius' circuits crate:     *)
(* the builder and its witness arena (builder.rs), the provide/require     *)
(* lookup argument (provide_require.rs), the u32 gadgets                   *)
(* (arithmetic/u32.rs), the column writers of keccakf (keccakf.rs), the    *)
(* projection and shift examples (acc-projected.rs, acc-shifted.rs) and    *)
(* the witness loops of the lasso u32add (lasso/u32add.rs).                *)
(*                                                                         *)
(* Gadgets are operators from a builder value to a result record           *)
(* [b, res, out]: b is the builder after the call, res is "Ok", an error   *)
(* name or "panic", out is the returned value.  Oracle ids, batch ids and  *)
(* channel ids are 0-based as in the code; sequences are 1-based, so the   *)
(* oracle with id i is oracles[i + 1].                                     *)
(*                                                                         *)
(* Specifications: SpecLookup and SpecSound (the lookup argument),         *)
(* SpecAdd (the add gadget), SpecOracles (oracle creation), SpecArena      *)
(* (column writers, get, set_data and take_witness), SpecBuilder (ledger,  *)
(* constraints, channels and build), SpecNames (oracle names), SpecPair    *)
(* (namespaces on two builders), SpecFinalize (take_witness with a failing *)
(* index), SpecArith (add, sub, mul_const and add3 on filled columns),     *)
(* SpecProjected (the projection example), SpecShifted (pairs of shift     *)
(* gadgets), SpecShard (the witness of add populated by several workers),  *)
(* SpecLasso (the lasso u32add witness) and SpecScope (a gadget called     *)
(* inside a caller's namespace).                                           *)
(***************************************************************************)
EXTENDS Integers, Sequences, FiniteSets, TLC

VARIABLES
    pc,       \* position of the driver of the specification at hand
    inp,      \* the inputs drawn for the run, or the log of the calls made
    bld,      \* the prover-side ConstraintSystemBuilder
    vbld,     \* a second ConstraintSystemBuilder driven by the same calls
    writers,  \* the live EntryBuilder values (column writers not yet dropped);
              \* in SpecShard the position of every worker
    ret       \* what the last call returned

vars == <<pc, inp, bld, vbld, writers, ret>>

(***************************************************************************)
(* Bounds of the model.                                                    *)
(***************************************************************************)
\* M is BinaryField64b in the code; its arithmetic is modelled in the tower
\* field of 2^MLevel bits.
MLevel == 2
\* largest table_count and largest lookup_values_count drawn.
MaxTableCount == 3
MaxLookupCount == 4
\* The bits of a word: u32 in the code.
WordBits == 3
\* The oracles created in a run of oracle creation.
MaxOracles == 4
\* The column writers alive at a time.
MaxWriters == 2
\* The number of builder operations of a run of SpecBuilder.
MaxOps == 4
\* SpecNames and SpecPair: the depth of the namespace stack, the number of
\* namespace calls and of oracles of SpecNames, and the number of calls
\* other than namespace calls of SpecPair.
MaxDepth == 2
MaxLog == 4
MaxNameOps == 2
MaxPairOps == 2

\* SpecProjected: log2 of the rows of the input column.
MaxLogSize == 6

\* SpecShifted: log2 of the bits of a block.
MaxBlockBits == 2
\* SpecShard: the u32 rows of a column and the workers that share them.
MaxRows == 2
MaxWorkers == 2
\* SpecLasso: a byte of the lasso u32add has ByteBits bits (8 in the code) and
\* the columns hold MaxBlocks blocks of 4 byte rows.
ByteBits == 2
MaxBlocks == 2

(***************************************************************************)
(* Binary tower field arithmetic.                                          *)
(***************************************************************************)
RECURSIVE BitXor(_, _)
BitXor(a, b) ==
    IF a = 0 THEN b
    ELSE IF b = 0 THEN a
    ELSE (((a % 2) + (b % 2)) % 2) + 2 * BitXor(a \div 2, b \div 2)

RECURSIVE Pow2(_)
Pow2(n) == IF n = 0 THEN 1 ELSE 2 * Pow2(n - 1)

\* Karatsuba multiplication in the tower: an element of level k is a0 + a1*X,
\* X^2 = X*alpha + 1, alpha the generator of level k-1 (1 at the bottom).
RECURSIVE mul_main(_, _, _)
mul_main(k, a, b) ==
    IF k = 0 THEN a * b
    ELSE LET h     == Pow2(Pow2(k - 1))
             a0    == a % h
             a1    == a \div h
             b0    == b % h
             b1    == b \div h
             alpha == IF k = 1 THEN 1 ELSE Pow2(Pow2(k - 2))
             z2    == mul_main(k - 1, a1, b1)
             z0    == mul_main(k - 1, a0, b0)
             z1    == mul_main(k - 1, BitXor(a0, a1), BitXor(b0, b1))
             z2_z0 == BitXor(z2, z0)
             hi    == BitXor(BitXor(mul_main(k - 1, z2, alpha), z1), z2_z0)
         IN  z2_z0 + h * hi

\* The elements of M, and its arithmetic.
MElems == 0 .. (Pow2(Pow2(MLevel)) - 1)
M_ONE == 1
MMul(a, b) == mul_main(MLevel, a, b)

RECURSIVE MOrder(_, _, _)
MOrder(g, x, n) == IF x = M_ONE THEN n ELSE MOrder(g, MMul(x, g), n + 1)

\* M::MULTIPLICATIVE_GENERATOR: an element whose powers are all the non-zero
\* elements of M.
M_GEN == CHOOSE g \in MElems : g > 1 /\ MOrder(g, g, 1) = Cardinality(MElems) - 1

MulGen(x) == MMul(x, M_GEN)

(***************************************************************************)
(* Program constants.                                                      *)
(***************************************************************************)
\* TOWER_LEVEL of the fields the gadgets name.
B1_TOWER_LEVEL == 0
FS_TOWER_LEVEL == 5
M_TOWER_LEVEL == 6
F_TOWER_LEVEL == 7
\* log2 of the bits of the underlier U: PackedType<U, FS>::LOG_WIDTH is
\* U_LOG_BITS minus the tower level of FS.
U_LOG_BITS == 7
\* log2 of the bits of u32: the block of a shift and the variables select_bit
\* projects.
U32_LOG_BITS == 5

LOG_WIDTH(level) == U_LOG_BITS - level

(***************************************************************************)
(* Small helpers.                                                          *)
(***************************************************************************)
RECURSIVE ilog2(_)
ilog2(n) == IF n <= 1 THEN 0 ELSE 1 + ilog2(n \div 2)

Max(a, b) == IF a >= b THEN a ELSE b

Min(a, b) == IF a <= b THEN a ELSE b

Range(s) == {s[i] : i \in DOMAIN s}

\* The first n elements of s, followed by the rest of t.
Overwrite(t, s, n) == [i \in DOMAIN t |-> IF i <= n THEN s[i] ELSE t[i]]

Result(b, res, out) == [b |-> b, res |-> res, out |-> out]

\* let v = ...; the rest of the function body is F.
Bind(v, F(_)) == F(v)

(***************************************************************************)
(* witness::Builder: the table of registered columns, indexed by oracle    *)
(* id.  An entry records the tower level of the field the column was       *)
(* written in, its log_rows and its data: the buffer as the slice it was   *)
(* written through (underliers in SpecArena, field elements in the lookup, *)
(* bits in the u32 gadgets).                                               *)
(***************************************************************************)
NoEntry == [present |-> FALSE, level |-> 0, log_rows |-> 0, data |-> <<>>]

Entry(level, log_rows, data) ==
    [present |-> TRUE, level |-> level, log_rows |-> log_rows, data |-> data]

NoWitness == [some |-> FALSE, entries |-> <<>>]

witness_Builder_new == [some |-> TRUE, entries |-> <<>>]

\* entries.resize_with(id + 1, || None) when id >= entries.len()
resize_with(entries, id) ==
    IF id >= Len(entries)
    THEN [i \in 1 .. (id + 1) |-> IF i <= Len(entries) THEN entries[i] ELSE NoEntry]
    ELSE entries

\* The length of the buffer new_column allocates, in underliers:
\* 1 << (log_rows - LOG_WIDTH).  -1 stands for the subtraction overflowing
\* (log_rows < LOG_WIDTH), which no build survives.
new_column_len(level, log_rows) ==
    IF log_rows < LOG_WIDTH(level) THEN -1 ELSE Pow2(log_rows - LOG_WIDTH(level))

\* An EntryBuilder: the zero-initialised buffer and the id it will be
\* registered under.
new_column(id, level, log_rows) ==
    [id |-> id, level |-> level, log_rows |-> log_rows,
     data |-> [i \in 1 .. new_column_len(level, log_rows) |-> 0]]

\* Mutant of drop_EntryBuilder: the buffer is released without being
\* registered.
drop_EntryBuilder_discard(w, e) == w

\* impl Drop for EntryBuilder: register the buffer under the writer's id.
drop_EntryBuilder(w, e) ==
    [w EXCEPT !.entries =
        [resize_with(w.entries, e.id) EXCEPT ![e.id + 1] = Entry(e.level, e.log_rows, e.data)]]

\* <FW as ExtensionField<FS>>::LOG_DEGREE, FW being the witness field F.
LOG_DEGREE(level) == F_TOWER_LEVEL - level

\* Mutant of witness_get: the extension degree is not compared.
witness_get_any_degree(w, id, level) ==
    IF id >= Len(w.entries) \/ ~w.entries[id + 1].present
    THEN [err |-> "MissingWitness", data |-> <<>>]
    ELSE [err |-> "Ok", data |-> w.entries[id + 1].data]

\* witness::Builder::get::<FS>: [err, data].
witness_get(w, id, level) ==
    IF id >= Len(w.entries) \/ ~w.entries[id + 1].present
    THEN [err |-> "MissingWitness", data |-> <<>>]
    ELSE IF LOG_DEGREE(w.entries[id + 1].level) # LOG_DEGREE(level)
    THEN [err |-> "OracleExtensionDegreeMismatch", data |-> <<>>]
    ELSE [err |-> "Ok", data |-> w.entries[id + 1].data]

\* witness::Builder::set_data: the table is resized before the column is
\* built, so a refused column leaves the table longer; MultilinearExtension::new
\* refuses data that does not hold 2^log_rows elements.
set_data(w, id, level, log_rows, data) ==
    IF log_rows < LOG_WIDTH(level) \/ Len(data) # Pow2(log_rows - LOG_WIDTH(level))
    THEN [err |-> "Error", w |-> [w EXCEPT !.entries = resize_with(@, id)]]
    ELSE [err |-> "Ok",
          w   |-> [w EXCEPT !.entries =
                      [resize_with(@, id) EXCEPT ![id + 1] = Entry(level, log_rows, data)]]]

\* MultilinearExtensionIndex::update_multilin_poly: it returns a Result;
\* updated is that result, and on Ok the index holds the entries given.
update_multilin_poly(entries, updated) ==
    IF updated = "Ok" THEN [err |-> "Ok", index |-> entries]
    ELSE [err |-> "Error", index |-> <<>>]

\* witness::Builder::build: the index from oracle id to column, over the
\* registered entries; the error of update_multilin_poly is passed on by `?`.
witness_Builder_build(w, updated) ==
    update_multilin_poly(
        [id \in {i - 1 : i \in {j \in DOMAIN w.entries : w.entries[j].present}} |->
            w.entries[id + 1]],
        updated)

(***************************************************************************)
(* ConstraintSystemBuilder.                                                *)
(***************************************************************************)
NewBuilder(w) ==
    [oracles             |-> <<>>,
     batches             |-> <<>>,
     batch_ids           |-> <<>>,
     constraints         |-> <<>>,
     constraints_base    |-> <<>>,
     non_zero_oracle_ids |-> <<>>,
     flushes             |-> <<>>,
     witness             |-> w,
     next_channel_id     |-> 0,
     namespace_path      |-> <<>>]

ConstraintSystemBuilder_new == NewBuilder(NoWitness)

ConstraintSystemBuilder_new_with_witness == NewBuilder(witness_Builder_new)

\* Mutant of take_witness: the arena is left in the builder.
take_witness_keep(b, live, updated) ==
    IF ~b.witness.some THEN [b |-> b, res |-> "panic", index |-> <<>>]
    ELSE IF live THEN [b |-> b, res |-> "panic", index |-> <<>>]
    ELSE Bind(witness_Builder_build(b.witness, updated), LAMBDA built :
         IF built.err = "Ok"
         THEN [b |-> b, res |-> "Some", index |-> built.index]
         ELSE [b |-> b, res |-> "None", index |-> <<>>])

\* ConstraintSystemBuilder::take_witness.  live: a column writer still holds
\* a reference to the entries, so Rc::into_inner yields None and the unwrap
\* panics, after Option::take has emptied the builder's witness.  The Result
\* of build() goes through .ok(): an Err becomes None.
take_witness(b, live, updated) ==
    IF ~b.witness.some THEN [b |-> b, res |-> "panic", index |-> <<>>]
    ELSE IF live
    THEN [b |-> [b EXCEPT !.witness = NoWitness], res |-> "panic", index |-> <<>>]
    ELSE Bind(witness_Builder_build(b.witness, updated), LAMBDA built :
         IF built.err = "Ok"
         THEN [b |-> [b EXCEPT !.witness = NoWitness], res |-> "Some",
               index |-> built.index]
         ELSE [b |-> [b EXCEPT !.witness = NoWitness], res |-> "None",
               index |-> <<>>])

\* [String]::join: the elements with sep between them.
RECURSIVE join(_, _)
join(path, sep) ==
    IF Len(path) = 0 THEN ""
    ELSE IF Len(path) = 1 THEN path[1]
    ELSE path[1] \o sep \o join(Tail(path), sep)

\* Mutant of scoped_name: only the innermost namespace is prefixed.
scoped_name_innermost(b, name) ==
    IF Len(b.namespace_path) = 0 THEN name
    ELSE b.namespace_path[Len(b.namespace_path)] \o "::" \o name

\* format!("{}::{name}", self.namespace_path.join("::")), and the name alone
\* under an empty path.
scoped_name(b, name) ==
    IF Len(b.namespace_path) = 0 THEN name
    ELSE join(b.namespace_path, "::") \o "::" \o name

\* MultilinearOracleSet: a new oracle gets the next id.
AddOracle(b, kind, name, n_vars, tower_level, batch, inner) ==
    [b  |-> [b EXCEPT !.oracles = Append(@,
                [kind |-> kind, name |-> scoped_name(b, name), n_vars |-> n_vars,
                 tower_level |-> tower_level, batch |-> batch, inner |-> inner])],
     id |-> Len(b.oracles)]

\* MultilinearOracleSet::add_committed_batch: a new batch gets the next id.
add_committed_batch(b, n_vars, tower_level) ==
    [b        |-> [b EXCEPT !.batches = Append(@, <<n_vars, tower_level>>)],
     batch_id |-> Len(b.batches)]

FindBatch(b, n_vars, tower_level) ==
    {i \in DOMAIN b.batch_ids :
        b.batch_ids[i][1] = n_vars /\ b.batch_ids[i][2] = tower_level}

\* Mutant of get_or_create_batch_id: a batch is created on every call.
get_or_create_batch_id_fresh(b, n_vars, tower_level) ==
    Bind(add_committed_batch(b, n_vars, tower_level), LAMBDA r :
         [b |-> [r.b EXCEPT !.batch_ids = Append(@, <<n_vars, tower_level, r.batch_id>>)],
          batch_id |-> r.batch_id])

get_or_create_batch_id(b, n_vars, tower_level) ==
    LET found == FindBatch(b, n_vars, tower_level)
    IN  IF found # {}
        THEN [b |-> b,
              batch_id |-> b.batch_ids[CHOOSE i \in found : \A j \in found : i <= j][3]]
        ELSE LET r == add_committed_batch(b, n_vars, tower_level)
             IN  [b |-> [r.b EXCEPT !.batch_ids =
                            Append(@, <<n_vars, tower_level, r.batch_id>>)],
                  batch_id |-> r.batch_id]

add_committed(b, name, n_vars, tower_level) ==
    Bind(get_or_create_batch_id(b, n_vars, tower_level), LAMBDA r :
         AddOracle(r.b, "committed", name, n_vars, tower_level, r.batch_id, <<>>))

\* committed_multiple: n oracles of one batch, with consecutive ids.
RECURSIVE committed_multiple(_, _, _, _, _, _)
committed_multiple(b, name, n_vars, tower_level, batch_id, n) ==
    IF n = 0 THEN [b |-> b, ids |-> <<>>]
    ELSE Bind(AddOracle(b, "committed", name, n_vars, tower_level, batch_id, <<>>),
              LAMBDA r :
         Bind(committed_multiple(r.b, name, n_vars, tower_level, batch_id, n - 1),
              LAMBDA t : [b |-> t.b, ids |-> <<r.id>> \o t.ids]))

add_committed_multiple(b, name, n_vars, tower_level, n) ==
    Bind(get_or_create_batch_id(b, n_vars, tower_level), LAMBDA r :
         committed_multiple(r.b, name, n_vars, tower_level, r.batch_id, n))

add_transparent(b, name, n_vars, tower_level) ==
    AddOracle(b, "transparent", name, n_vars, tower_level, -1, <<>>)

\* The oracle set refuses a combination of oracles of another n_vars.
add_linear_combination(b, name, n_vars, inner) ==
    IF \E i \in DOMAIN inner :
          inner[i] >= Len(b.oracles) \/ b.oracles[inner[i] + 1].n_vars # n_vars
    THEN [b |-> b, id |-> -1]
    ELSE AddOracle(b, "linear_combination", name, n_vars, F_TOWER_LEVEL, -1, inner)

\* Mutant of add_channel: the counter is not advanced.
add_channel_reuse(b) ==
    [b |-> b, channel_id |-> b.next_channel_id]

add_channel(b) ==
    [b |-> [b EXCEPT !.next_channel_id = @ + 1], channel_id |-> b.next_channel_id]

\* Mutant of send: a flush that is already recorded is not recorded again.
send_dedup(b, channel_id, count, oracle_ids) ==
    LET f == [channel_id |-> channel_id, direction |-> "Push",
              oracles |-> oracle_ids, count |-> count]
    IN  IF \E i \in DOMAIN b.flushes : b.flushes[i] = f THEN b
        ELSE [b EXCEPT !.flushes = Append(@, f)]

send(b, channel_id, count, oracle_ids) ==
    [b EXCEPT !.flushes = Append(@,
        [channel_id |-> channel_id, direction |-> "Push",
         oracles |-> oracle_ids, count |-> count])]

receive(b, channel_id, count, oracle_ids) ==
    [b EXCEPT !.flushes = Append(@,
        [channel_id |-> channel_id, direction |-> "Pull",
         oracles |-> oracle_ids, count |-> count])]

\* Mutant of assert_zero: the base constraint set is left alone.
assert_zero_full_only(b, name, oracle_ids, composition) ==
    [b EXCEPT !.constraints = Append(@,
                  [name |-> scoped_name(b, name), oracles |-> oracle_ids,
                   composition |-> composition])]

assert_zero(b, name, oracle_ids, composition) ==
    [b EXCEPT !.constraints_base = Append(@,
                  [name |-> scoped_name(b, name), oracles |-> oracle_ids,
                   composition |-> composition]),
              !.constraints = Append(@,
                  [name |-> scoped_name(b, name), oracles |-> oracle_ids,
                   composition |-> composition])]

push_namespace(b, name) == [b EXCEPT !.namespace_path = Append(@, name)]

\* Mutant of pop_namespace: the pop is made on the non-zero list.
pop_namespace_other_list(b) ==
    [b EXCEPT !.non_zero_oracle_ids =
        IF Len(@) = 0 THEN @ ELSE SubSeq(@, 1, Len(@) - 1)]

\* Vec::pop: nothing happens on an empty path.
pop_namespace(b) ==
    [b EXCEPT !.namespace_path =
        IF Len(@) = 0 THEN @ ELSE SubSeq(@, 1, Len(@) - 1)]

\* Mutant of assert_not_zero: the list is started again with the new id.
assert_not_zero_reset(b, oracle_id) ==
    [b EXCEPT !.non_zero_oracle_ids = <<oracle_id>>]

assert_not_zero(b, oracle_id) ==
    [b EXCEPT !.non_zero_oracle_ids = Append(@, oracle_id)]

\* ConstraintSetBuilder::build(&oracles): the constraints are compiled
\* against the oracle set, which fails on an id the oracle set does not hold.
ConstraintSetBuilder_build(constraints, oracles) ==
    IF \E i \in DOMAIN constraints : \E j \in DOMAIN constraints[i].oracles :
          constraints[i].oracles[j] >= Len(oracles)
    THEN [err |-> "Error", set |-> <<>>]
    ELSE [err |-> "Ok", set |-> constraints]

NoConstraintSystem == [some |-> FALSE]

\* flushes.iter().map(|flush| flush.channel_id).max().unwrap_or(0)
max_channel_id(flushes) ==
    IF flushes = <<>> THEN 0
    ELSE CHOOSE m \in {flushes[i].channel_id : i \in DOMAIN flushes} :
            \A i \in DOMAIN flushes : flushes[i].channel_id <= m

ConstraintSystem(b, full, base, max_id) ==
    [some                   |-> TRUE,
     max_channel_id         |-> max_id,
     table_constraints      |-> full,
     table_constraints_base |-> base,
     non_zero_oracle_ids    |-> b.non_zero_oracle_ids,
     oracles                |-> b.oracles,
     flushes                |-> b.flushes]

\* Mutant of build: max_channel_id is the channel of the last flush.
build_last_channel(b) ==
    Bind(ConstraintSetBuilder_build(b.constraints, b.oracles), LAMBDA full :
    Bind(ConstraintSetBuilder_build(b.constraints_base, b.oracles), LAMBDA base :
         IF full.err # "Ok" \/ base.err # "Ok"
         THEN [res |-> "Err", cs |-> NoConstraintSystem]
         ELSE [res |-> "Ok",
               cs  |-> ConstraintSystem(b, full.set, base.set,
                          IF b.flushes = <<>> THEN 0
                          ELSE b.flushes[Len(b.flushes)].channel_id)]))

\* Mutant of build: the errors of the constraint sets are dropped.
build_unchecked(b) ==
    [res |-> "Ok",
     cs  |-> ConstraintSystem(b, b.constraints, b.constraints_base,
                              max_channel_id(b.flushes))]

\* ConstraintSystemBuilder::build: both constraint sets are built with `?`.
build(b) ==
    Bind(ConstraintSetBuilder_build(b.constraints, b.oracles), LAMBDA full :
    Bind(ConstraintSetBuilder_build(b.constraints_base, b.oracles), LAMBDA base :
         IF full.err # "Ok" \/ base.err # "Ok"
         THEN [res |-> "Err", cs |-> NoConstraintSystem]
         ELSE [res |-> "Ok",
               cs  |-> ConstraintSystem(b, full.set, base.set,
                                        max_channel_id(b.flushes))]))

(***************************************************************************)
(* provide_require.rs.  new_column is called there with the id alone: the  *)
(* log_rows it sizes the buffer with is the n_vars of the oracle.          *)
(***************************************************************************)
\* The number of elements of the buffer of the column of an oracle of n_vars
\* variables: its rows, in whole underliers.
oracle_column_len(level, n_vars) == Pow2(Max(n_vars, LOG_WIDTH(level)))

\* A column written through a writer that is dropped at the end of the
\* statement: new_column, as_mut_slice()[0..count].copy_from_slice(vals), drop.
\* [ok, w]: ok is FALSE when the slice [0..count] is out of range.
WriteColumn(w, id, level, n_vars, vals, count) ==
    LET e == [id |-> id, level |-> level, log_rows |-> n_vars,
              data |-> [i \in 1 .. oracle_column_len(level, n_vars) |-> 0]]
    IN  IF oracle_column_len(level, n_vars) < count
        THEN [ok |-> FALSE, w |-> w]
        ELSE [ok |-> TRUE,
              w  |-> drop_EntryBuilder(w, [e EXCEPT !.data = Overwrite(@, vals, count)])]

\* The running count of value f after the first n rows of the slice: the map
\* entry is seeded with M::ONE and multiplied by M_GEN per occurrence.
RECURSIVE mult_map(_, _, _)
mult_map(slice, n, f) ==
    IF n = 0 THEN M_ONE
    ELSE IF slice[n] = f THEN MulGen(mult_map(slice, n - 1, f))
    ELSE mult_map(slice, n - 1, f)

\* Mutant of prev_index_vec: the entry is pushed after it was advanced.
prev_index_vec_advanced(slice, count) ==
    [i \in 1 .. count |-> mult_map(slice, i, slice[i])]

\* prev_index_vec: the map entry of the row's value before the row is counted.
prev_index_vec(slice, count) ==
    [i \in 1 .. count |-> mult_map(slice, i - 1, slice[i])]

\* Mutant of mult_vec: a table row that no lookup references gets zero.
mult_vec_zero_default(table_slice, count, lookup_slice, lookup_count) ==
    [i \in 1 .. count |->
        IF \E j \in 1 .. lookup_count : lookup_slice[j] = table_slice[i]
        THEN mult_map(lookup_slice, lookup_count, table_slice[i])
        ELSE 0]

\* mult_vec: the final map entry of the row's value, M::ONE when there is none.
mult_vec(table_slice, count, lookup_slice, lookup_count) ==
    [i \in 1 .. count |->
        IF \E j \in 1 .. lookup_count : lookup_slice[j] = table_slice[i]
        THEN mult_map(lookup_slice, lookup_count, table_slice[i])
        ELSE M_ONE]

\* Mutant of populate_require_hints: a lookup value that is in no table row
\* is reported as an error.
populate_require_hints_strict(b, table, table_count, lookup_values, lookup_values_count) ==
    Bind(add_committed(b, "multiplicity", ilog2(table_count), M_TOWER_LEVEL),
         LAMBDA r1 :
    Bind(add_committed(r1.b, "prev_index", ilog2(lookup_values_count), M_TOWER_LEVEL),
         LAMBDA r2 :
    Bind(witness_get(r2.b.witness, lookup_values, FS_TOWER_LEVEL), LAMBDA gl :
    Bind(witness_get(r2.b.witness, table, FS_TOWER_LEVEL), LAMBDA gt :
    IF /\ r2.b.witness.some /\ gl.err = "Ok" /\ gt.err = "Ok"
       /\ \E j \in 1 .. Len(gl.data) : j <= lookup_values_count /\
             \A i \in 1 .. Len(gt.data) : i <= table_count => gt.data[i] # gl.data[j]
    THEN Result(r2.b, "NotInTable", <<r1.id, r2.id>>)
    ELSE Result(r2.b, "Ok", <<r1.id, r2.id>>)))))

populate_require_hints(b, table, table_count, lookup_values, lookup_values_count) ==
    Bind(add_committed(b, "multiplicity", ilog2(table_count), M_TOWER_LEVEL),
         LAMBDA r1 :
    Bind(add_committed(r1.b, "prev_index", ilog2(lookup_values_count), M_TOWER_LEVEL),
         LAMBDA r2 :
    LET multiplicity == r1.id
        prev_index == r2.id
        b2 == r2.b
        out == <<multiplicity, prev_index>>
    IN  IF ~b2.witness.some THEN Result(b2, "Ok", out)
        ELSE
        Bind(witness_get(b2.witness, lookup_values, FS_TOWER_LEVEL), LAMBDA gl :
        Bind(witness_get(b2.witness, table, FS_TOWER_LEVEL), LAMBDA gt :
        IF gl.err # "Ok" THEN Result(b2, gl.err, out)
        ELSE IF lookup_values_count > Len(gl.data) THEN Result(b2, "panic", out)
        ELSE IF gt.err # "Ok" THEN Result(b2, gt.err, out)
        ELSE IF table_count > Len(gt.data) THEN Result(b2, "panic", out)
        ELSE
        Bind(WriteColumn(b2.witness, multiplicity, M_TOWER_LEVEL,
                         ilog2(table_count),
                         mult_vec(gt.data, table_count, gl.data, lookup_values_count),
                         table_count), LAMBDA w1 :
        Bind(WriteColumn(w1.w, prev_index, M_TOWER_LEVEL,
                         ilog2(lookup_values_count),
                         prev_index_vec(gl.data, lookup_values_count),
                         lookup_values_count), LAMBDA w2 :
        IF ~w1.ok THEN Result(b2, "panic", out)
        ELSE IF ~w2.ok THEN Result([b2 EXCEPT !.witness = w1.w], "panic", out)
        ELSE Result([b2 EXCEPT !.witness = w2.w], "Ok", out)))))))

\* Mutant of provide: multiplicity is pushed and ones is pulled.
provide_push_multiplicity(b, channel, multiplicity, table, table_count) ==
    Bind(add_transparent(b, "ones", ilog2(table_count), M_TOWER_LEVEL), LAMBDA r1 :
    Bind(WriteColumn(r1.b.witness, r1.id, M_TOWER_LEVEL, ilog2(table_count),
             [i \in 1 .. oracle_column_len(M_TOWER_LEVEL, ilog2(table_count)) |-> M_ONE],
             oracle_column_len(M_TOWER_LEVEL, ilog2(table_count))), LAMBDA w1 :
    LET ones == r1.id
        b2 == IF r1.b.witness.some THEN [r1.b EXCEPT !.witness = w1.w] ELSE r1.b
    IN  IF r1.b.witness.some /\ ~w1.ok THEN Result(r1.b, "panic", <<>>)
        ELSE Result(receive(send(b2, channel, table_count, <<table, multiplicity>>),
                            channel, table_count, <<table, ones>>),
                    "Ok", <<>>)))

provide(b, channel, multiplicity, table, table_count) ==
    Bind(add_transparent(b, "ones", ilog2(table_count), M_TOWER_LEVEL), LAMBDA r1 :
    \* new_column_with_default::<M>(ones, M::ONE)
    Bind(WriteColumn(r1.b.witness, r1.id, M_TOWER_LEVEL, ilog2(table_count),
             [i \in 1 .. oracle_column_len(M_TOWER_LEVEL, ilog2(table_count)) |-> M_ONE],
             oracle_column_len(M_TOWER_LEVEL, ilog2(table_count))), LAMBDA w1 :
    LET ones == r1.id
        b2 == IF r1.b.witness.some THEN [r1.b EXCEPT !.witness = w1.w] ELSE r1.b
    IN  IF r1.b.witness.some /\ ~w1.ok THEN Result(r1.b, "panic", <<>>)
        ELSE Result(receive(send(b2, channel, table_count, <<table, ones>>),
                            channel, table_count, <<table, multiplicity>>),
                    "Ok", <<>>)))

\* The rows require fills of the index column: the zip of the two slices
\* stops at the shorter one.
index_rows(log_n, prev) ==
    IF oracle_column_len(F_TOWER_LEVEL, log_n) < Len(prev)
    THEN oracle_column_len(F_TOWER_LEVEL, log_n) ELSE Len(prev)

\* Mutant of index_value: the index is the prev_index itself.
index_value_unchanged(prev) == prev

\* The closure of require: *index = F::from_underlier(*prev) * M_GEN.
index_value(prev) == MulGen(prev)

require(b, channel, prev_index, lookup_values, lookup_values_count) ==
    Bind(add_linear_combination(b, "index", ilog2(lookup_values_count), <<prev_index>>),
         LAMBDA r1 :
    Bind(witness_get(r1.b.witness, prev_index, M_TOWER_LEVEL), LAMBDA gp :
    Bind(WriteColumn(r1.b.witness, r1.id, F_TOWER_LEVEL, ilog2(lookup_values_count),
             [i \in 1 .. index_rows(ilog2(lookup_values_count), gp.data) |->
                 index_value(gp.data[i])],
             index_rows(ilog2(lookup_values_count), gp.data)), LAMBDA w1 :
    LET index == r1.id
        b2 == IF r1.b.witness.some THEN [r1.b EXCEPT !.witness = w1.w] ELSE r1.b
    IN  IF r1.id < 0 THEN Result(b, "OracleError", <<>>)
        ELSE IF r1.b.witness.some /\ gp.err # "Ok" THEN Result(r1.b, gp.err, <<>>)
        ELSE IF r1.b.witness.some /\ ~w1.ok THEN Result(r1.b, "panic", <<>>)
        ELSE Result(send(receive(b2, channel, lookup_values_count,
                                 <<lookup_values, prev_index>>),
                         channel, lookup_values_count, <<lookup_values, index>>),
                    "Ok", <<>>))))

provide_require_lookup(b, table, table_count, lookup_values, lookup_values_count) ==
    Bind(populate_require_hints(b, table, table_count, lookup_values,
                                lookup_values_count), LAMBDA h :
    IF h.res # "Ok" THEN Result(h.b, h.res, <<>>) ELSE
    Bind(add_channel(h.b), LAMBDA c :
    Bind(provide(c.b, c.channel_id, h.out[1], table, table_count), LAMBDA p :
    IF p.res # "Ok" THEN p ELSE
    require(p.b, c.channel_id, h.out[2], lookup_values, lookup_values_count))))

\* n_vars of the smallest column that holds count rows.
RECURSIVE ColumnLogRows(_)
ColumnLogRows(count) == IF count <= 1 THEN 0 ELSE 1 + ColumnLogRows((count + 1) \div 2)

\* test_u8_mul_lookup: a transparent table column, a committed lookup column
\* whose first lookup_values_count rows are filled, and the lookup over them.
test_u8_mul_lookup(b, table_values, lookup_values) ==
    Bind(add_transparent(b, "u8_mul_table", ColumnLogRows(Len(table_values)),
                         FS_TOWER_LEVEL), LAMBDA r1 :
    Bind(WriteColumn(r1.b.witness, r1.id, FS_TOWER_LEVEL,
             ColumnLogRows(Len(table_values)), table_values, Len(table_values)),
         LAMBDA w1 :
    Bind(add_committed(IF r1.b.witness.some THEN [r1.b EXCEPT !.witness = w1.w] ELSE r1.b,
                       "lookup_values", ColumnLogRows(Len(lookup_values)),
                       FS_TOWER_LEVEL), LAMBDA r2 :
    Bind(WriteColumn(r2.b.witness, r2.id, FS_TOWER_LEVEL,
             ColumnLogRows(Len(lookup_values)), lookup_values, Len(lookup_values)),
         LAMBDA w2 :
    provide_require_lookup(
        IF r2.b.witness.some THEN [r2.b EXCEPT !.witness = w2.w] ELSE r2.b,
        r1.id, Len(table_values), r2.id, Len(lookup_values))))))

(***************************************************************************)
(* Channel balance, as the proof system checks it over the exported flush  *)
(* list: every flush covers the first count rows of its oracles, and per   *)
(* channel the multiset of tuples pushed equals the multiset pulled.       *)
(***************************************************************************)
Col(b, id) == b.witness.entries[id + 1].data

FlushEvents(b, direction) ==
    UNION {{<<f, r>> : r \in 1 .. b.flushes[f].count} :
            f \in {g \in DOMAIN b.flushes : b.flushes[g].direction = direction}}

FlushTuple(b, e) ==
    [k \in DOMAIN b.flushes[e[1]].oracles |-> Col(b, b.flushes[e[1]].oracles[k])[e[2]]]

SameTuple(b, e1, e2) ==
    /\ b.flushes[e1[1]].channel_id = b.flushes[e2[1]].channel_id
    /\ FlushTuple(b, e1) = FlushTuple(b, e2)

ChannelsBalanced(b) ==
    \A e \in FlushEvents(b, "Push") \cup FlushEvents(b, "Pull") :
        Cardinality({p \in FlushEvents(b, "Push") : SameTuple(b, p, e)})
      = Cardinality({p \in FlushEvents(b, "Pull") : SameTuple(b, p, e)})

(***************************************************************************)
(* SpecLookup: the lookup test on drawn table and lookup values, run on a  *)
(* prover-side and on a verifier-side builder.                             *)
(***************************************************************************)
\* The FS values a table or lookup row may carry.
Vals == 0 .. 2

ValSeqs(max) == UNION {[1 .. n -> Vals] : n \in 1 .. max}

Idle == [res |-> "None"]

LookupInit ==
    /\ pc = "start"
    /\ inp \in [table : ValSeqs(MaxTableCount), lookup : ValSeqs(MaxLookupCount)]
    /\ bld = ConstraintSystemBuilder_new_with_witness
    /\ vbld = ConstraintSystemBuilder_new
    /\ writers = {}
    /\ ret = Idle

Lookup ==
    /\ pc = "start"
    /\ \E r \in {test_u8_mul_lookup(bld, inp.table, inp.lookup)} :
       \E v \in {test_u8_mul_lookup(vbld, inp.table, inp.lookup)} :
           /\ bld' = r.b
           /\ vbld' = v.b
           /\ ret' = [res |-> r.res, vres |-> v.res]
    /\ pc' = "done"
    /\ UNCHANGED <<inp, writers>>

LookupNext == Lookup

SpecLookup == LookupInit /\ [][LookupNext]_vars

(***************************************************************************)
(* Claims about the lookup argument.                                       *)
(***************************************************************************)
TableDistinct ==
    \A i, j \in DOMAIN inp.table : i # j => inp.table[i] # inp.table[j]

LookupInTable ==
    \A j \in DOMAIN inp.lookup : \E i \in DOMAIN inp.table : inp.lookup[j] = inp.table[i]

IsPowerOfTwo(n) == n = Pow2(ilog2(n))

\* The counts for which the prover-side slices [0..count] are in range.
CountsFit == IsPowerOfTwo(Len(inp.table)) /\ IsPowerOfTwo(Len(inp.lookup))

OracleNamed(b, name) ==
    (CHOOSE i \in DOMAIN b.oracles : b.oracles[i].name = name) - 1

\* C1: when the table rows are pairwise distinct and every lookup row's
\* value is in the table, the flushes the prover-side call records, over the
\* columns it wrote, balance the channel.
C1_ChannelBalances ==
    (pc = "done" /\ ret.res = "Ok" /\ TableDistinct /\ LookupInTable)
        => ChannelsBalanced(bld)

\* A completed run with a repeated lookup value, an unused table row and
\* table_count different from lookup_values_count.
C1_Witness ==
    /\ pc = "done" /\ ret.res = "Ok" /\ TableDistinct /\ LookupInTable
    /\ Len(inp.table) # Len(inp.lookup)
    /\ \E i \in DOMAIN inp.table : \A j \in DOMAIN inp.lookup : inp.lookup[j] # inp.table[i]
    /\ \E j, k \in DOMAIN inp.lookup : j # k /\ inp.lookup[j] = inp.lookup[k]
    /\ Len(bld.flushes) = 4

\* C3: in prover mode the call returns Ok although a lookup value is in no
\* table row; the hint columns are written and the four flushes recorded.
C3_InvalidDataAccepted ==
    (pc = "done" /\ ~LookupInTable /\ CountsFit)
        => /\ ret.res = "Ok"
           /\ witness_get(bld.witness, OracleNamed(bld, "multiplicity"), M_TOWER_LEVEL).err = "Ok"
           /\ witness_get(bld.witness, OracleNamed(bld, "prev_index"), M_TOWER_LEVEL).err = "Ok"
           /\ witness_get(bld.witness, OracleNamed(bld, "index"), F_TOWER_LEVEL).err = "Ok"
           /\ Len(bld.flushes) = 4

C3_Witness ==
    /\ pc = "done" /\ ~LookupInTable /\ CountsFit
    /\ ret.res = "Ok" /\ Len(bld.flushes) = 4
    /\ bld.witness.some

(***************************************************************************)
(* SpecSound: after the lookup was built, the prover commits to arbitrary  *)
(* multiplicity and prev_index columns.  index is derived from prev_index  *)
(* (a linear combination), ones is transparent.                            *)
(***************************************************************************)
\* The values a forged hint row is drawn from.
HintVals == {0, M_ONE, M_GEN, MulGen(M_GEN)}

WithHints(b, mult, prev) ==
    LET m == OracleNamed(b, "multiplicity") + 1
        p == OracleNamed(b, "prev_index") + 1
        x == OracleNamed(b, "index") + 1
    IN  [b EXCEPT !.witness.entries =
            [@ EXCEPT ![m].data = Overwrite(@, mult, Len(mult)),
                      ![p].data = Overwrite(@, prev, Len(prev)),
                      ![x].data = [i \in DOMAIN @ |->
                                      IF i <= Len(prev) THEN MulGen(prev[i]) ELSE @[i]]]]

SoundInit ==
    /\ pc = "start"
    /\ inp \in [table : [1 .. 2 -> Vals], lookup : [1 .. 2 -> Vals]]
    /\ bld = ConstraintSystemBuilder_new_with_witness
    /\ vbld = ConstraintSystemBuilder_new
    /\ writers = {}
    /\ ret = Idle

Forge ==
    /\ pc = "done"
    /\ ret.res = "Ok"
    /\ \E mult \in [DOMAIN inp.table -> HintVals], prev \in [DOMAIN inp.lookup -> HintVals] :
          bld' = WithHints(bld, mult, prev)
    /\ pc' = "forged"
    /\ UNCHANGED <<inp, vbld, writers, ret>>

SoundNext == Lookup \/ Forge

SpecSound == SoundInit /\ [][SoundNext]_vars

\* C2: when a lookup row carries a value that is in no table row, no choice
\* of the multiplicity and prev_index columns balances the channel.
C2_Soundness ==
    (pc = "forged" /\ ~LookupInTable) => ~ChannelsBalanced(bld)

(***************************************************************************)
(* arithmetic/u32.rs.  A BinaryField1b column is a sequence of bits; the   *)
(* gadgets read and write it as a slice of u32 words, WordBits bits each.  *)
(***************************************************************************)
Bit(x, i) == (x \div Pow2(i)) % 2

RECURSIVE BitOr(_, _)
BitOr(a, b) ==
    IF a = 0 THEN b ELSE IF b = 0 THEN a
    ELSE (IF (a % 2) + (b % 2) > 0 THEN 1 ELSE 0) + 2 * BitOr(a \div 2, b \div 2)

\* The bits of a BinaryField1b column of n_vars variables: whole underliers
\* of 2^(LOG_WIDTH - U32_LOG_BITS) words.
b1_column_len(n_vars) ==
    Pow2(Max(n_vars, LOG_WIDTH(B1_TOWER_LEVEL)) - U32_LOG_BITS) * WordBits

\* The rows of an oracle of n_vars variables over BinaryField1b: 2^n_vars,
\* a word counting for 2^U32_LOG_BITS of them.
num_rows(n_vars) ==
    IF n_vars >= U32_LOG_BITS THEN Pow2(n_vars - U32_LOG_BITS) * WordBits
    ELSE Pow2(n_vars)

\* as_slice::<u32>: word i of the column, least significant bit first.
RECURSIVE word_at(_, _, _)
word_at(data, i, j) ==
    IF j = WordBits THEN 0
    ELSE data[(i - 1) * WordBits + j + 1] * Pow2(j) + word_at(data, i, j + 1)

as_slice_u32(data) == [i \in 1 .. (Len(data) \div WordBits) |-> word_at(data, i, 0)]

\* The bits of a slice of u32 words.
from_slice_u32(words) ==
    [r \in 1 .. (Len(words) * WordBits) |->
        Bit(words[((r - 1) \div WordBits) + 1], (r - 1) % WordBits)]

\* new_column::<BinaryField1b>(id) written through as_mut_slice::<u32>() and
\* dropped at the end of the statement.
write_u32_column(w, id, n_vars, words) ==
    drop_EntryBuilder(w, [id |-> id, level |-> B1_TOWER_LEVEL, log_rows |-> n_vars,
        data |-> Overwrite([i \in 1 .. b1_column_len(n_vars) |-> 0],
                           from_slice_u32(words), Len(words) * WordBits)])

\* builder.log_rows(ids): the common n_vars of the oracles, -1 when they differ
\* or an id is unknown.
log_rows(b, ids) ==
    IF \E i \in DOMAIN ids : ids[i] < 0 \/ ids[i] >= Len(b.oracles) THEN -1
    ELSE IF \E i \in DOMAIN ids : b.oracles[ids[i] + 1].n_vars # b.oracles[ids[1] + 1].n_vars
    THEN -1
    ELSE b.oracles[ids[1] + 1].n_vars

add_shifted(b, name, id, offset, block_bits, variant) ==
    IF id < 0 \/ id >= Len(b.oracles) \/ block_bits > b.oracles[id + 1].n_vars
    THEN [b |-> b, id |-> -1]
    ELSE AddOracle(b, "shifted", name, b.oracles[id + 1].n_vars,
                   b.oracles[id + 1].tower_level, -1, <<id>>)

add_projected(b, name, id, n_values, variant) ==
    IF id < 0 \/ id >= Len(b.oracles) \/ n_values > b.oracles[id + 1].n_vars
    THEN [b |-> b, id |-> -1]
    ELSE AddOracle(b, "projected", name, b.oracles[id + 1].n_vars - n_values,
                   b.oracles[id + 1].tower_level, -1, <<id>>)

\* Mutant of select_bit: the projection is added before n_vars and index are
\* looked at.
select_bit_late_ensure(b, name, input, index) ==
    IF log_rows(b, <<input>>) < 0 THEN Result(b, "OracleError", <<>>)
    ELSE
    Bind(add_projected(b, name, input, Min(U32_LOG_BITS, log_rows(b, <<input>>)), "FirstVars"),
         LAMBDA r :
    IF log_rows(b, <<input>>) < U32_LOG_BITS \/ index >= WordBits
    THEN Result(r.b, "ensure", <<>>)
    ELSE Result(r.b, "Ok", <<r.id>>))

\* select_bit: the writer of the bits column is created before the input is
\* read, so it registers its zero buffer when the read fails.
select_bit(b, name, input, index) ==
    IF log_rows(b, <<input>>) < 0 THEN Result(b, "OracleError", <<>>)
    ELSE IF log_rows(b, <<input>>) < U32_LOG_BITS THEN Result(b, "ensure", <<>>)
    ELSE IF index >= WordBits THEN Result(b, "ensure", <<>>)
    ELSE
    Bind(add_projected(b, name, input, U32_LOG_BITS, "FirstVars"), LAMBDA r :
    IF r.id < 0 THEN Result(b, "OracleError", <<>>)
    ELSE IF ~r.b.witness.some THEN Result(r.b, "Ok", <<r.id>>)
    ELSE
    Bind(witness_get(r.b.witness, input, B1_TOWER_LEVEL), LAMBDA g :
    LET n_vars == r.b.oracles[r.id + 1].n_vars
        zeros == [i \in 1 .. b1_column_len(n_vars) |-> 0]
        e == [id |-> r.id, level |-> B1_TOWER_LEVEL, log_rows |-> n_vars, data |-> zeros]
    IN  IF g.err # "Ok"
        THEN Result([r.b EXCEPT !.witness = drop_EntryBuilder(@, e)], g.err, <<>>)
        ELSE Result([r.b EXCEPT !.witness = drop_EntryBuilder(@,
                        [e EXCEPT !.data = [i \in DOMAIN zeros |->
                            IF i <= Len(as_slice_u32(g.data))
                            THEN Bit(as_slice_u32(g.data)[i], index) ELSE 0]])],
                    "Ok", <<r.id>>)))

\* Mutant of add_row: the carry out of the top bit is not recorded in cout.
add_row_drop_carry(x, y) ==
    LET zout == (x + y) % Pow2(WordBits)
        cin == BitXor(BitXor(x, y), zout)
    IN  [zout |-> zout, cin |-> cin, cout |-> cin \div 2]

\* Mutant of add_row: cin is taken from the operands alone.
add_row_cin_operands(x, y) ==
    LET zout == (x + y) % Pow2(WordBits)
        carry == IF x + y >= Pow2(WordBits) THEN 1 ELSE 0
        cin == BitXor(x, y)
    IN  [zout |-> zout, cin |-> cin,
         cout |-> BitOr(carry * Pow2(WordBits - 1), cin \div 2)]

\* The closure add applies to every row: overflowing_add, cin, cout.
add_row(x, y) ==
    LET zout == (x + y) % Pow2(WordBits)
        carry == IF x + y >= Pow2(WordBits) THEN 1 ELSE 0
        cin == BitXor(BitXor(x, y), zout)
    IN  [zout |-> zout, cin |-> cin,
         cout |-> BitOr(carry * Pow2(WordBits - 1), cin \div 2)]

\* The witness step of add: the zip of the five slices.
add_witness(w, xin, yin, zout, cout, cin, n_vars) ==
    Bind(witness_get(w, xin, B1_TOWER_LEVEL), LAMBDA gx :
    IF gx.err # "Ok" THEN [err |-> gx.err, w |-> w] ELSE
    Bind(witness_get(w, yin, B1_TOWER_LEVEL), LAMBDA gy :
    IF gy.err # "Ok" THEN [err |-> gy.err, w |-> w] ELSE
    Bind([i \in 1 .. (Min(Min(Len(gx.data), Len(gy.data)), b1_column_len(n_vars))
                        \div WordBits) |->
            add_row(as_slice_u32(gx.data)[i], as_slice_u32(gy.data)[i])], LAMBDA rows :
    [err |-> "Ok",
     w   |-> write_u32_column(
                 write_u32_column(
                     write_u32_column(w, cin, n_vars, [i \in DOMAIN rows |-> rows[i].cin]),
                     cout, n_vars, [i \in DOMAIN rows |-> rows[i].cout]),
                 zout, n_vars, [i \in DOMAIN rows |-> rows[i].zout])])))

\* The overflow check of add: select_bit of the top bit of cout.
add_overflow(b, cout) ==
    Bind(select_bit(b, "last_cout", cout, WordBits - 1), LAMBDA s :
    IF s.res # "Ok" THEN s
    ELSE Result(assert_zero(s.b, "overflow", s.out, "overflow"), "Ok", <<>>))

add(b, name, xin, yin, flags) ==
    Bind(push_namespace(b, name), LAMBDA b0 :
    IF log_rows(b0, <<xin, yin>>) < 0 THEN Result(b0, "OracleError", <<>>) ELSE
    Bind(add_committed(b0, "cout", log_rows(b0, <<xin, yin>>), B1_TOWER_LEVEL), LAMBDA c :
    Bind(add_shifted(c.b, "cin", c.id, 1, U32_LOG_BITS, "LogicalLeft"), LAMBDA ci :
    IF ci.id < 0 THEN Result(c.b, "OracleError", <<>>) ELSE
    Bind(add_committed(ci.b, "zout", log_rows(b0, <<xin, yin>>), B1_TOWER_LEVEL), LAMBDA z :
    Bind(IF z.b.witness.some
         THEN add_witness(z.b.witness, xin, yin, z.id, c.id, ci.id,
                          log_rows(b0, <<xin, yin>>))
         ELSE [err |-> "Ok", w |-> z.b.witness], LAMBDA wr :
    IF wr.err # "Ok" THEN Result(z.b, wr.err, <<>>) ELSE
    Bind(assert_zero(
             assert_zero([z.b EXCEPT !.witness = wr.w],
                         "sum", <<xin, yin, ci.id, z.id>>, "sum"),
             "carry", <<xin, yin, ci.id, c.id>>, "carry"), LAMBDA b5 :
    Bind(IF flags = "Checked" THEN add_overflow(b5, c.id) ELSE Result(b5, "Ok", <<>>),
         LAMBDA o :
    IF o.res # "Ok" THEN o
    ELSE Result(pop_namespace(o.b), "Ok", <<z.id>>))))))))

\* Mutant of sub_row: the borrow is not recorded in the top bit of cout.
sub_row_drop_borrow(z, y) ==
    LET xin == (z - y + Pow2(WordBits)) % Pow2(WordBits)
        cin == BitXor(BitXor(xin, y), z)
    IN  [xin |-> xin, cin |-> cin, cout |-> cin \div 2]

\* The closure sub applies to every row: overflowing_sub, cin, cout.
sub_row(z, y) ==
    LET xin == (z - y + Pow2(WordBits)) % Pow2(WordBits)
        carry == IF z < y THEN 1 ELSE 0
        cin == BitXor(BitXor(xin, y), z)
    IN  [xin |-> xin, cin |-> cin,
         cout |-> BitOr(carry * Pow2(WordBits - 1), cin \div 2)]

\* The witness step of sub: the zip of the five slices.
sub_witness(w, zin, yin, xout, cout, cin, n_vars) ==
    Bind(witness_get(w, zin, B1_TOWER_LEVEL), LAMBDA gz :
    IF gz.err # "Ok" THEN [err |-> gz.err, w |-> w] ELSE
    Bind(witness_get(w, yin, B1_TOWER_LEVEL), LAMBDA gy :
    IF gy.err # "Ok" THEN [err |-> gy.err, w |-> w] ELSE
    Bind([i \in 1 .. (Min(Min(Len(gz.data), Len(gy.data)), b1_column_len(n_vars))
                        \div WordBits) |->
            sub_row(as_slice_u32(gz.data)[i], as_slice_u32(gy.data)[i])], LAMBDA rows :
    [err |-> "Ok",
     w   |-> write_u32_column(
                 write_u32_column(
                     write_u32_column(w, cin, n_vars, [i \in DOMAIN rows |-> rows[i].cin]),
                     cout, n_vars, [i \in DOMAIN rows |-> rows[i].cout]),
                 xout, n_vars, [i \in DOMAIN rows |-> rows[i].xin])])))

\* The underflow check of sub: select_bit of the top bit of cout.
sub_underflow(b, cout) ==
    Bind(select_bit(b, "last_cout", cout, WordBits - 1), LAMBDA s :
    IF s.res # "Ok" THEN s
    ELSE Result(assert_zero(s.b, "underflow", s.out, "underflow"), "Ok", <<>>))

\* sub: the result oracle is committed under the name xin.
sub(b, name, zin, yin, flags) ==
    Bind(push_namespace(b, name), LAMBDA b0 :
    IF log_rows(b0, <<zin, yin>>) < 0 THEN Result(b0, "OracleError", <<>>) ELSE
    Bind(add_committed(b0, "cout", log_rows(b0, <<zin, yin>>), B1_TOWER_LEVEL), LAMBDA c :
    Bind(add_shifted(c.b, "cin", c.id, 1, U32_LOG_BITS, "LogicalLeft"), LAMBDA ci :
    IF ci.id < 0 THEN Result(c.b, "OracleError", <<>>) ELSE
    Bind(add_committed(ci.b, "xin", log_rows(b0, <<zin, yin>>), B1_TOWER_LEVEL), LAMBDA x :
    Bind(IF x.b.witness.some
         THEN sub_witness(x.b.witness, zin, yin, x.id, c.id, ci.id,
                          log_rows(b0, <<zin, yin>>))
         ELSE [err |-> "Ok", w |-> x.b.witness], LAMBDA wr :
    IF wr.err # "Ok" THEN Result(x.b, wr.err, <<>>) ELSE
    Bind(assert_zero(
             assert_zero([x.b EXCEPT !.witness = wr.w],
                         "sum", <<x.id, yin, ci.id, zin>>, "sum"),
             "carry", <<x.id, yin, ci.id, c.id>>, "carry"), LAMBDA b5 :
    Bind(IF flags = "Checked" THEN sub_underflow(b5, c.id) ELSE Result(b5, "Ok", <<>>),
         LAMBDA o :
    IF o.res # "Ok" THEN o
    ELSE Result(pop_namespace(o.b), "Ok", <<x.id>>))))))))

\* Mutant of shl_word: the bits shifted out come back in at the bottom.
shl_word_rotate(x, offset) ==
    ((x * Pow2(offset)) % Pow2(WordBits)) + ((x * Pow2(offset)) \div Pow2(WordBits))

\* The closure of shl: *input << offset on a word.
shl_word(x, offset) == (x * Pow2(offset)) % Pow2(WordBits)

\* shl: the writer of the shifted column is created before the input is read.
shl(b, name, input, offset) ==
    IF offset = 0 THEN Result(b, "Ok", <<input>>) ELSE
    Bind(add_shifted(b, name, input, offset, U32_LOG_BITS, "LogicalLeft"), LAMBDA r :
    IF r.id < 0 THEN Result(b, "OracleError", <<>>)
    ELSE IF ~r.b.witness.some THEN Result(r.b, "Ok", <<r.id>>)
    ELSE
    Bind(witness_get(r.b.witness, input, B1_TOWER_LEVEL), LAMBDA g :
    LET n_vars == r.b.oracles[r.id + 1].n_vars
    IN  IF g.err # "Ok"
        THEN Result([r.b EXCEPT !.witness = write_u32_column(@, r.id, n_vars, <<>>)],
                    g.err, <<>>)
        ELSE Result([r.b EXCEPT !.witness = write_u32_column(@, r.id, n_vars,
                        [i \in 1 .. (Min(Len(g.data), b1_column_len(n_vars)) \div WordBits) |->
                            shl_word(as_slice_u32(g.data)[i], offset)])],
                    "Ok", <<r.id>>)))

RECURSIVE BitAnd(_, _)
BitAnd(a, b) ==
    IF a = 0 \/ b = 0 THEN 0
    ELSE ((a % 2) * (b % 2)) + 2 * BitAnd(a \div 2, b \div 2)

\* Mutant of add3_row: right is the OR of the three words.
add3_row_or(x, y, z) ==
    [left  |-> BitXor(BitXor(x, y), z),
     right |-> BitOr(BitOr(x, y), z)]

\* The closure add3 applies to every row.
add3_row(x, y, z) ==
    [left  |-> BitXor(BitXor(x, y), z),
     right |-> BitOr(BitOr(BitAnd(x, y), BitAnd(x, z)), BitAnd(y, z))]

\* The witness step of add3: the zip of the five slices.
add3_witness(w, xin, yin, zin, left, right, n_vars) ==
    Bind(witness_get(w, xin, B1_TOWER_LEVEL), LAMBDA gx :
    IF gx.err # "Ok" THEN [err |-> gx.err, w |-> w] ELSE
    Bind(witness_get(w, yin, B1_TOWER_LEVEL), LAMBDA gy :
    IF gy.err # "Ok" THEN [err |-> gy.err, w |-> w] ELSE
    Bind(witness_get(w, zin, B1_TOWER_LEVEL), LAMBDA gz :
    IF gz.err # "Ok" THEN [err |-> gz.err, w |-> w] ELSE
    Bind([i \in 1 .. (Min(Min(Min(Len(gx.data), Len(gy.data)), Len(gz.data)),
                          b1_column_len(n_vars)) \div WordBits) |->
            add3_row(as_slice_u32(gx.data)[i], as_slice_u32(gy.data)[i],
                     as_slice_u32(gz.data)[i])], LAMBDA rows :
    [err |-> "Ok",
     w   |-> write_u32_column(
                 write_u32_column(w, right, n_vars, [i \in DOMAIN rows |-> rows[i].right]),
                 left, n_vars, [i \in DOMAIN rows |-> rows[i].left])]))))

\* add3: the namespace is popped before add is called on left and
\* right << 1.
add3(b, name, xin, yin, zin, flags) ==
    Bind(push_namespace(b, name), LAMBDA b0 :
    IF log_rows(b0, <<xin, yin, zin>>) < 0 THEN Result(b0, "OracleError", <<>>) ELSE
    Bind(add_linear_combination(b0, "left", log_rows(b0, <<xin, yin, zin>>),
                                <<xin, yin, zin>>), LAMBDA l :
    IF l.id < 0 THEN Result(b0, "OracleError", <<>>) ELSE
    Bind(add_committed(l.b, "right", log_rows(b0, <<xin, yin, zin>>), B1_TOWER_LEVEL),
         LAMBDA r :
    Bind(IF r.b.witness.some
         THEN add3_witness(r.b.witness, xin, yin, zin, l.id, r.id,
                           log_rows(b0, <<xin, yin, zin>>))
         ELSE [err |-> "Ok", w |-> r.b.witness], LAMBDA wr :
    IF wr.err # "Ok" THEN Result(r.b, wr.err, <<>>) ELSE
    Bind(shl([r.b EXCEPT !.witness = wr.w], "right_shifted", r.id, 1), LAMBDA sh :
    IF sh.res # "Ok" THEN sh ELSE
    add(pop_namespace(
            assert_zero(
                assert_zero(sh.b, "left", <<xin, yin, zin, l.id>>, "left"),
                "right", <<xin, yin, zin, r.id>>, "right")),
        "add3 -> add2", l.id, sh.out[1], flags))))))

\* transparent::constant(builder, name, log_rows, BinaryField1b::ZERO): a
\* transparent oracle, whose column holds the value in every row.
transparent_constant(b, name, n_vars, value) ==
    Bind(add_transparent(b, name, n_vars, B1_TOWER_LEVEL), LAMBDA r :
    IF ~r.b.witness.some THEN Result(r.b, "Ok", <<r.id>>)
    ELSE Result([r.b EXCEPT !.witness = drop_EntryBuilder(@,
                    [id |-> r.id, level |-> B1_TOWER_LEVEL, log_rows |-> n_vars,
                     data |-> [i \in 1 .. b1_column_len(n_vars) |-> value]])],
                "Ok", <<r.id>>))

\* The while loop of mul_const: a shifted copy of the input for every set bit
\* of tmp, added to the result.  out is <<result, offset>>.
RECURSIVE mul_const_loop(_, _, _, _, _, _, _)
mul_const_loop(b, input, tmp, offset, result, first, flags) ==
    IF tmp = 0 THEN Result(b, "Ok", <<result, offset>>)
    ELSE
    Bind(IF tmp % 2 = 1
         THEN Bind(shl(b, "input_shl" \o ToString(offset), input, offset), LAMBDA sh :
              IF sh.res # "Ok" THEN sh
              ELSE IF first THEN Result(sh.b, "Ok", <<sh.out[1], FALSE>>)
              ELSE Bind(add(sh.b, "add_shl" \o ToString(offset), result, sh.out[1], flags),
                        LAMBDA a :
                   IF a.res # "Ok" THEN a ELSE Result(a.b, "Ok", <<a.out[1], FALSE>>)))
         ELSE Result(b, "Ok", <<result, first>>), LAMBDA step :
    IF step.res # "Ok" THEN step
    ELSE mul_const_loop(step.b, input, tmp \div 2,
                        IF tmp \div 2 # 0 THEN offset + 1 ELSE offset,
                        step.out[1], step.out[2], flags))

\* Shift overflow checking: for i in 32 - offset..32, bit i of the input is
\* asserted to be zero.
RECURSIVE mul_const_shift_overflow(_, _, _)
mul_const_shift_overflow(b, input, i) ==
    IF i >= WordBits THEN Result(b, "Ok", <<>>)
    ELSE Bind(select_bit(b, "bit" \o ToString(i), input, i), LAMBDA x :
         IF x.res # "Ok" THEN x
         ELSE mul_const_shift_overflow(
                  assert_zero(x.b, "overflow", x.out, "overflow"), input, i + 1))

mul_const(b, name, input, value, flags) ==
    IF value = 0
    THEN IF log_rows(b, <<input>>) < 0 THEN Result(b, "OracleError", <<>>)
         ELSE transparent_constant(b, name, log_rows(b, <<input>>), 0)
    ELSE IF value = 1 THEN Result(b, "Ok", <<input>>)
    ELSE
    Bind(mul_const_loop(push_namespace(b, name), input, value, 0, input, TRUE, flags),
         LAMBDA l :
    IF l.res # "Ok" THEN l ELSE
    Bind(IF flags = "Checked"
         THEN mul_const_shift_overflow(l.b, input, WordBits - l.out[2])
         ELSE Result(l.b, "Ok", <<>>), LAMBDA o :
    IF o.res # "Ok" THEN o
    ELSE Result(pop_namespace(o.b), "Ok", <<l.out[1]>>)))

add_packed(b, name, id, log_degree) ==
    IF id < 0 \/ id >= Len(b.oracles) \/ log_degree > b.oracles[id + 1].n_vars
    THEN [b |-> b, id |-> -1]
    ELSE AddOracle(b, "packed", name, b.oracles[id + 1].n_vars - log_degree,
                   b.oracles[id + 1].tower_level + log_degree, -1, <<id>>)

\* witness.set(id, entry): the entry is registered under id.
witness_set(w, id, level, n_vars, data) ==
    [w EXCEPT !.entries = [resize_with(@, id) EXCEPT ![id + 1] = Entry(level, n_vars, data)]]

\* arithmetic::u32::constant: a committed column filled with value, its
\* packing and the transparent constant it must equal.
constant(b, name, log_count, value) ==
    Bind(push_namespace(b, name), LAMBDA b0 :
    Bind(add_committed(b0, "output", log_count + U32_LOG_BITS, B1_TOWER_LEVEL), LAMBDA o :
    Bind(IF o.b.witness.some
         THEN [o.b EXCEPT !.witness = write_u32_column(@, o.id, log_count + U32_LOG_BITS,
                   [i \in 1 .. (b1_column_len(log_count + U32_LOG_BITS) \div WordBits) |-> value])]
         ELSE o.b, LAMBDA b1 :
    Bind(add_packed(b1, "output_packed", o.id, U32_LOG_BITS), LAMBDA p :
    IF p.id < 0 THEN Result(b1, "OracleError", <<>>) ELSE
    Bind(add_transparent(p.b, "transparent", log_count, FS_TOWER_LEVEL), LAMBDA t :
    Bind(IF ~t.b.witness.some THEN [err |-> "Ok", w |-> t.b.witness]
         ELSE Bind(witness_get(t.b.witness, o.id, B1_TOWER_LEVEL), LAMBDA g :
              IF g.err # "Ok" THEN [err |-> g.err, w |-> t.b.witness]
              ELSE [err |-> "Ok",
                    w |-> witness_set(
                              witness_set(t.b.witness, p.id, FS_TOWER_LEVEL, log_count, g.data),
                              t.id, FS_TOWER_LEVEL, log_count, g.data)]), LAMBDA wr :
    IF wr.err # "Ok" THEN Result(t.b, wr.err, <<>>)
    ELSE Result(pop_namespace(assert_zero([t.b EXCEPT !.witness = wr.w], "unpack",
                                          <<p.id, t.id>>, "unpack")),
                "Ok", <<o.id>>)))))))

\* A committed BinaryField1b column of one word's worth of variables whose
\* words all hold value.
u32_filled(b, name, value) ==
    Bind(add_committed(b, name, U32_LOG_BITS, B1_TOWER_LEVEL), LAMBDA r :
    IF ~r.b.witness.some THEN r
    ELSE [r EXCEPT !.b.witness = write_u32_column(@, r.id, U32_LOG_BITS,
             [i \in 1 .. (b1_column_len(U32_LOG_BITS) \div WordBits) |-> value])])

(***************************************************************************)
(* Zero-check constraints, as validate_witness evaluates them: the         *)
(* composition vanishes on every row of its oracles.                       *)
(***************************************************************************)
\* The arith_expr! compositions of add, sub, add3 and constant, bit by bit.
arith_expr(composition, v) ==
    CASE composition = "sum"      -> (v[1] + v[2] + v[3] + v[4]) % 2
      [] composition = "unpack"   -> (v[1] + v[2]) % 2
      [] composition = "carry"    -> ((v[1] + v[3]) * (v[2] + v[3]) + v[3] + v[4]) % 2
      [] composition = "overflow" -> v[1]
      [] composition = "underflow" -> v[1]
      [] composition = "left"     -> (v[1] + v[2] + v[3] + v[4]) % 2
      [] composition = "right"    ->
             (v[1] * (v[2] + v[3])
                + v[2] * v[3] * (1 + v[1] * (1 + (v[2] + v[3] + v[1] * v[2] * v[3])))
                + v[4]) % 2

ConstraintHolds(b, c) ==
    \A r \in 1 .. num_rows(b.oracles[c.oracles[1] + 1].n_vars) :
        arith_expr(c.composition, [k \in DOMAIN c.oracles |-> Col(b, c.oracles[k])[r]]) = 0

ConstraintsNamed(b, name) ==
    {i \in DOMAIN b.constraints : b.constraints[i].name = name}

(***************************************************************************)
(* The add gadget on two filled columns, on a prover and on a verifier.    *)
(***************************************************************************)
Words == 0 .. (Pow2(WordBits) - 1)

AddInit ==
    /\ pc = "add_start"
    /\ inp \in [x : Words, y : Words, flags : {"Checked", "Unchecked"}]
    /\ bld = ConstraintSystemBuilder_new_with_witness
    /\ vbld = ConstraintSystemBuilder_new
    /\ writers = {}
    /\ ret = Idle

AddColumns ==
    /\ pc = "add_start"
    /\ \E a \in {u32_filled(bld, "a", inp.x)}, va \in {u32_filled(vbld, "a", inp.x)} :
       \E c \in {u32_filled(a.b, "b", inp.y)}, vc \in {u32_filled(va.b, "b", inp.y)} :
           /\ bld' = c.b
           /\ vbld' = vc.b
           /\ ret' = [res |-> "Ok", xin |-> a.id, yin |-> c.id]
    /\ pc' = "add_columns"
    /\ UNCHANGED <<inp, writers>>

Add ==
    /\ pc = "add_columns"
    /\ \E r \in {add(bld, "add", ret.xin, ret.yin, inp.flags)},
          v \in {add(vbld, "add", ret.xin, ret.yin, inp.flags)} :
           /\ bld' = r.b
           /\ vbld' = v.b
           /\ ret' = [res |-> r.res, vres |-> v.res, xin |-> ret.xin, yin |-> ret.yin,
                      out |-> r.out]
    /\ pc' = "added"
    /\ UNCHANGED <<inp, writers>>

AddNext == AddColumns \/ Add

SpecAdd == AddInit /\ [][AddNext]_vars

\* C4: the columns add writes satisfy the sum and the carry relation on every
\* bit, zout is (x + y) mod 2^WordBits in every word, and with Flags::Checked
\* the overflow constraint on the top bit of cout is violated exactly when
\* x + y >= 2^WordBits.
C4_AddRelations ==
    pc = "added" =>
        /\ ret.res = "Ok"
        /\ ConstraintsNamed(bld, "add::sum") # {}
        /\ ConstraintsNamed(bld, "add::carry") # {}
        /\ \A i \in ConstraintsNamed(bld, "add::sum")
                      \cup ConstraintsNamed(bld, "add::carry") :
               ConstraintHolds(bld, bld.constraints[i])
        /\ \A i \in DOMAIN as_slice_u32(Col(bld, ret.out[1])) :
               as_slice_u32(Col(bld, ret.out[1]))[i] = (inp.x + inp.y) % Pow2(WordBits)
        /\ (inp.flags = "Checked") = (ConstraintsNamed(bld, "add::overflow") # {})
        /\ \A i \in ConstraintsNamed(bld, "add::overflow") :
               ~ConstraintHolds(bld, bld.constraints[i]) <=> inp.x + inp.y >= Pow2(WordBits)

C4_Witness ==
    /\ pc = "added"
    /\ ret.res = "Ok"
    /\ inp.flags = "Checked"
    /\ inp.x + inp.y >= Pow2(WordBits)
    /\ \E i \in ConstraintsNamed(bld, "add::overflow") :
           ~ConstraintHolds(bld, bld.constraints[i])

(***************************************************************************)
(* Prover and verifier driven by the same calls.                           *)
(***************************************************************************)
\* What the builder exports besides the witness.
Structure(b) == [b EXCEPT !.witness = NoWitness]

\* C5: after the same gadget calls the prover-side and the verifier-side
\* builder hold the same oracles, batches, constraints, non-zero assertions,
\* channel counter and flushes, and only the prover holds witness columns.
C5_SameStructure ==
    pc = "done" =>
        /\ Structure(bld) = Structure(vbld)
        /\ ret.res = ret.vres
        /\ vbld.witness = NoWitness

(***************************************************************************)
(* Oracle creation: committed oracles, alone and in groups, interleaved    *)
(* with oracles of other kinds.                                            *)
(***************************************************************************)
Shapes == (0 .. 1) \X {B1_TOWER_LEVEL, M_TOWER_LEVEL}

OraclesInit ==
    /\ pc = "oracles"
    /\ inp = <<>>
    /\ bld = ConstraintSystemBuilder_new_with_witness
    /\ vbld = ConstraintSystemBuilder_new
    /\ writers = {}
    /\ ret = [op |-> "none"]

AddCommitted ==
    /\ pc = "oracles"
    /\ Len(bld.oracles) < MaxOracles
    /\ \E s \in Shapes : \E r \in {add_committed(bld, "c", s[1], s[2])} :
           /\ bld' = r.b
           /\ ret' = [op |-> "add_committed", ids |-> <<r.id>>]
    /\ UNCHANGED <<pc, inp, vbld, writers>>

AddCommittedMultiple ==
    /\ pc = "oracles"
    /\ Len(bld.oracles) + 2 <= MaxOracles
    /\ \E s \in Shapes : \E r \in {add_committed_multiple(bld, "m", s[1], s[2], 2)} :
           /\ bld' = r.b
           /\ ret' = [op |-> "add_committed_multiple", ids |-> r.ids]
    /\ UNCHANGED <<pc, inp, vbld, writers>>

AddTransparent ==
    /\ pc = "oracles"
    /\ Len(bld.oracles) < MaxOracles
    /\ \E s \in Shapes : \E r \in {add_transparent(bld, "t", s[1], s[2])} :
           /\ bld' = r.b
           /\ ret' = [op |-> "add_transparent", ids |-> <<r.id>>]
    /\ UNCHANGED <<pc, inp, vbld, writers>>

AddLinearCombination ==
    /\ pc = "oracles"
    /\ Len(bld.oracles) < MaxOracles
    /\ \E i \in DOMAIN bld.oracles :
       \E r \in {add_linear_combination(bld, "l", bld.oracles[i].n_vars, <<i - 1>>)} :
           /\ bld' = r.b
           /\ ret' = [op |-> "add_linear_combination", ids |-> <<r.id>>]
    /\ UNCHANGED <<pc, inp, vbld, writers>>

OraclesNext ==
    AddCommitted \/ AddCommittedMultiple \/ AddTransparent \/ AddLinearCombination

SpecOracles == OraclesInit /\ [][OraclesNext]_vars

Committed(b) == {i \in DOMAIN b.oracles : b.oracles[i].kind = "committed"}

SameShape(o1, o2) == o1.n_vars = o2.n_vars /\ o1.tower_level = o2.tower_level

\* C6: two committed oracles have the same batch id if and only if they were
\* created with equal (n_vars, tower_level), and no two batches have the same
\* shape.
C6_BatchByShape ==
    /\ \A i, j \in Committed(bld) :
           (bld.oracles[i].batch = bld.oracles[j].batch)
               <=> SameShape(bld.oracles[i], bld.oracles[j])
    /\ \A i, j \in DOMAIN bld.batches : bld.batches[i] = bld.batches[j] => i = j

C6_Witness ==
    \E i, j, k \in DOMAIN bld.oracles :
        /\ i < k /\ k < j
        /\ {i, j} \subseteq Committed(bld)
        /\ SameShape(bld.oracles[i], bld.oracles[j])
        /\ bld.oracles[i].batch = bld.oracles[j].batch
        /\ k \notin Committed(bld)
        /\ \E m \in Committed(bld) : ~SameShape(bld.oracles[m], bld.oracles[i])

(***************************************************************************)
(* The witness arena: column writers are created, written through and      *)
(* dropped in any order, columns are read, and the witness is taken.       *)
(***************************************************************************)
Ids == 0 .. 1

\* The field and log_rows of the columns created: one underlier each, and one
\* with fewer rows than an underlier holds.
ColumnShapes ==
    {<<F_TOWER_LEVEL, LOG_WIDTH(F_TOWER_LEVEL)>>,
     <<B1_TOWER_LEVEL, LOG_WIDTH(B1_TOWER_LEVEL)>>,
     <<B1_TOWER_LEVEL, LOG_WIDTH(B1_TOWER_LEVEL) - 1>>}

\* The values an underlier is written with.
UVals == 0 .. 1

ArenaInit ==
    /\ pc = "arena"
    /\ inp = <<>>
    /\ bld = ConstraintSystemBuilder_new_with_witness
    /\ vbld = ConstraintSystemBuilder_new
    /\ writers = {}
    /\ ret = [op |-> "none"]

\* The buffer of a new writer is distinct from the buffers of the live ones.
FreshBuf == CHOOSE n \in 0 .. Cardinality(writers) : \A w \in writers : w.buf # n

\* if let Some(witness) = builder.witness() { witness.new_column(id, log_rows) }
NewColumn ==
    /\ pc = "arena"
    /\ bld.witness.some
    /\ Cardinality(writers) < MaxWriters
    /\ \E id \in Ids, s \in ColumnShapes :
          IF new_column_len(s[1], s[2]) < 0
          THEN /\ pc' = "panic"
               /\ ret' = [op |-> "new_column", res |-> "panic"]
               /\ UNCHANGED writers
          ELSE /\ writers' = writers \cup
                     {[buf |-> FreshBuf, w |-> new_column(id, s[1], s[2])]}
               /\ ret' = [op |-> "new_column", res |-> "Ok"]
               /\ UNCHANGED pc
    /\ UNCHANGED <<inp, bld, vbld>>

\* as_mut_slice()[i] = v through a live writer
Write ==
    /\ pc = "arena"
    /\ \E e \in writers : \E i \in DOMAIN e.w.data, v \in UVals :
          /\ e.w.data[i] # v
          /\ writers' = (writers \ {e}) \cup {[e EXCEPT !.w.data[i] = v]}
    /\ ret' = [op |-> "write", res |-> "Ok"]
    /\ UNCHANGED <<pc, inp, bld, vbld>>

\* a writer goes out of scope
DropWriter ==
    /\ pc = "arena"
    /\ \E e \in writers :
          /\ writers' = writers \ {e}
          /\ bld' = [bld EXCEPT !.witness = drop_EntryBuilder(@, e.w)]
    /\ ret' = [op |-> "drop", res |-> "Ok"]
    /\ UNCHANGED <<pc, inp, vbld>>

\* keccakf: b[0] is a_theta[0], and the writers of a_theta and of b are
\* created one after the other and live to the end of the block.
KeccakfColumns ==
    /\ pc = "arena"
    /\ bld.witness.some
    /\ writers = {}
    /\ \E a_theta \in Ids :
          LET b == a_theta
          IN  writers' =
                {[buf |-> 0, w |-> new_column(a_theta, B1_TOWER_LEVEL,
                                              LOG_WIDTH(B1_TOWER_LEVEL))],
                 [buf |-> 1, w |-> new_column(b, B1_TOWER_LEVEL,
                                              LOG_WIDTH(B1_TOWER_LEVEL))]}
    /\ ret' = [op |-> "keccakf", res |-> "Ok"]
    /\ UNCHANGED <<pc, inp, bld, vbld>>

\* witness.get::<FS>(id)
Get ==
    /\ pc = "arena"
    /\ bld.witness.some
    /\ \E id \in 0 .. 2, level \in {B1_TOWER_LEVEL, F_TOWER_LEVEL} :
       \E g \in {witness_get(bld.witness, id, level)} :
          ret' = [op |-> "get", id |-> id, level |-> level, err |-> g.err, data |-> g.data]
    /\ UNCHANGED <<pc, inp, bld, vbld, writers>>

\* witness.set_data::<FS>(id, log_rows, data): a column of one underlier, or
\* two underliers under the log_rows of one.
SetData ==
    /\ pc = "arena"
    /\ bld.witness.some
    /\ \E id \in Ids, level \in {B1_TOWER_LEVEL, F_TOWER_LEVEL} :
       \E data \in [1 .. 1 -> UVals] \cup {<<0, 0>>} :
       \E r \in {set_data(bld.witness, id, level, LOG_WIDTH(level), data)} :
          /\ bld' = [bld EXCEPT !.witness = r.w]
          /\ ret' = [op |-> "set_data", res |-> r.err]
    /\ UNCHANGED <<pc, inp, vbld, writers>>

\* builder.take_witness() on the prover-side builder, with an index that
\* takes the columns (SpecFinalize has the index refuse them).
TakeWitness ==
    /\ pc = "arena"
    /\ \E t \in {take_witness(bld, writers # {}, "Ok")} :
          /\ bld' = t.b
          /\ ret' = [op |-> "take_witness", who |-> "prover", res |-> t.res,
                     index |-> t.index]
          /\ pc' = IF t.res = "panic" THEN "panic" ELSE pc
    /\ UNCHANGED <<inp, vbld, writers>>

\* builder.take_witness() on the verifier-side builder
TakeWitnessVerifier ==
    /\ pc = "arena"
    /\ \E t \in {take_witness(vbld, FALSE, "Ok")} :
          /\ vbld' = t.b
          /\ ret' = [op |-> "take_witness", who |-> "verifier", res |-> t.res,
                     index |-> t.index]
          /\ pc' = IF t.res = "panic" THEN "panic" ELSE pc
    /\ UNCHANGED <<inp, bld, writers>>

ArenaNext ==
    \/ NewColumn \/ Write \/ DropWriter \/ KeccakfColumns
    \/ Get \/ SetData \/ TakeWitness \/ TakeWitnessVerifier

SpecArena == ArenaInit /\ [][ArenaNext]_vars

Bufs(ws) == {e.buf : e \in ws}

\* C7: creating a writer and writing through it change nothing that get
\* returns, and the step in which a writer goes away registers its buffer:
\* get(id) then returns exactly the data written through that writer.
C7_DropRegisters ==
    [][/\ ret'.op \in {"new_column", "keccakf", "write"}
            => \A id \in 0 .. 2, level \in {B1_TOWER_LEVEL, F_TOWER_LEVEL} :
                   witness_get(bld'.witness, id, level) = witness_get(bld.witness, id, level)
       /\ \A e \in writers :
            e.buf \notin Bufs(writers')
                => witness_get(bld'.witness, e.w.id, e.w.level)
                       = [err |-> "Ok", data |-> e.w.data]]_vars

C7_Witness ==
    /\ ret.op = "drop"
    /\ \E id \in Ids :
          /\ witness_get(bld.witness, id, F_TOWER_LEVEL).err = "Ok"
          /\ witness_get(bld.witness, id, F_TOWER_LEVEL).data = <<1>>
    /\ writers # {}

\* C8: get(id) is a missing-witness error when nothing is registered under id
\* or id is beyond the table, an extension-degree-mismatch error when the
\* registered column's field differs from the requested one, and the
\* registered data otherwise; the arena is unchanged in every case.
C8_GetErrors ==
    [][ret'.op = "get" =>
        /\ bld' = bld
        /\ writers' = writers
        /\ LET entries == bld.witness.entries
               i == ret'.id + 1
           IN  IF i > Len(entries) \/ ~entries[i].present
               THEN ret'.err = "MissingWitness"
               ELSE IF entries[i].level # ret'.level
               THEN ret'.err = "OracleExtensionDegreeMismatch"
               ELSE ret'.err = "Ok" /\ ret'.data = entries[i].data]_vars

C8_Witness ==
    /\ ret.op = "get"
    /\ ret.err = "OracleExtensionDegreeMismatch"
    /\ Len(bld.witness.entries) = 1

C10_OneWriterPerId ==
    \A e1, e2 \in writers : e1.w.id = e2.w.id => e1 = e2

\* C11: once get(id) returns a column, no later step on the arena changes
\* what get(id) returns, as long as the arena is in the builder.
C11_Frozen ==
    [][(bld.witness.some /\ bld'.witness.some) =>
        \A id \in 0 .. 2, level \in {B1_TOWER_LEVEL, F_TOWER_LEVEL} :
            witness_get(bld.witness, id, level).err = "Ok"
                => witness_get(bld'.witness, id, level) = witness_get(bld.witness, id, level)]_vars

(***************************************************************************)
(* SpecBuilder: the ledger, the constraint sets, the non-zero list, the    *)
(* channel counter and the oracle set under any sequence of builder        *)
(* operations, ended by build().  ret holds the last call and its result,   *)
(* inp the channel ids add_channel has returned so far.                    *)
(***************************************************************************)
ChannelIds == {0, 2}

OracleTuples == {<<0>>, <<1, 0>>}

CommittedShapes == {<<3, B1_TOWER_LEVEL>>, <<3, F_TOWER_LEVEL>>}

OpCount(b) ==
    Len(b.oracles) + Len(b.flushes) + Len(b.constraints)
        + Len(b.non_zero_oracle_ids) + b.next_channel_id

BuilderInit ==
    /\ pc = "builder"
    /\ inp = <<>>
    /\ bld = ConstraintSystemBuilder_new
    /\ vbld = ConstraintSystemBuilder_new
    /\ writers = {}
    /\ ret = [op |-> "new"]

BuilderSend ==
    /\ pc = "builder"
    /\ OpCount(bld) < MaxOps
    /\ \E channel_id \in ChannelIds, oracle_ids \in OracleTuples :
          /\ bld' = send(bld, channel_id, 1, oracle_ids)
          /\ ret' = [op |-> "send", channel_id |-> channel_id, oracle_ids |-> oracle_ids]
    /\ UNCHANGED <<pc, inp, vbld, writers>>

BuilderReceive ==
    /\ pc = "builder"
    /\ OpCount(bld) < MaxOps
    /\ \E channel_id \in ChannelIds, oracle_ids \in OracleTuples :
          /\ bld' = receive(bld, channel_id, 1, oracle_ids)
          /\ ret' = [op |-> "receive", channel_id |-> channel_id, oracle_ids |-> oracle_ids]
    /\ UNCHANGED <<pc, inp, vbld, writers>>

BuilderAssertZero ==
    /\ pc = "builder"
    /\ OpCount(bld) < MaxOps
    /\ \E oracle_ids \in OracleTuples :
          /\ bld' = assert_zero(bld, "zero", oracle_ids, "sum")
          /\ ret' = [op |-> "assert_zero", oracle_ids |-> oracle_ids]
    /\ UNCHANGED <<pc, inp, vbld, writers>>

BuilderAssertNotZero ==
    /\ pc = "builder"
    /\ OpCount(bld) < MaxOps
    /\ \E oracle_id \in 0 .. 1 :
          /\ bld' = assert_not_zero(bld, oracle_id)
          /\ ret' = [op |-> "assert_not_zero", oracle_id |-> oracle_id]
    /\ UNCHANGED <<pc, inp, vbld, writers>>

BuilderAddChannel ==
    /\ pc = "builder"
    /\ OpCount(bld) < MaxOps
    /\ \E r \in {add_channel(bld)} :
          /\ bld' = r.b
          /\ inp' = Append(inp, r.channel_id)
          /\ ret' = [op |-> "add_channel", channel_id |-> r.channel_id]
    /\ UNCHANGED <<pc, vbld, writers>>

BuilderAddCommitted ==
    /\ pc = "builder"
    /\ OpCount(bld) < MaxOps
    /\ \E shape \in CommittedShapes :
       \E r \in {add_committed(bld, "col", shape[1], shape[2])} :
          /\ bld' = r.b
          /\ ret' = [op |-> "add_committed", id |-> r.id]
    /\ UNCHANGED <<pc, inp, vbld, writers>>

BuilderAddCommittedMultiple ==
    /\ pc = "builder"
    /\ OpCount(bld) + 2 <= MaxOps
    /\ \E r \in {add_committed_multiple(bld, "cols", 3, B1_TOWER_LEVEL, 2)} :
          /\ bld' = r.b
          /\ ret' = [op |-> "add_committed_multiple", ids |-> r.ids]
    /\ UNCHANGED <<pc, inp, vbld, writers>>

BuilderAddTransparent ==
    /\ pc = "builder"
    /\ OpCount(bld) < MaxOps
    /\ \E r \in {add_transparent(bld, "const", 3, B1_TOWER_LEVEL)} :
          /\ bld' = r.b
          /\ ret' = [op |-> "add_transparent", id |-> r.id]
    /\ UNCHANGED <<pc, inp, vbld, writers>>

\* build(self) consumes the builder: no operation follows it.
Build ==
    /\ pc = "builder"
    /\ \E r \in {build(bld)} :
          ret' = [op |-> "build", res |-> r.res, cs |-> r.cs]
    /\ pc' = "built"
    /\ UNCHANGED <<inp, bld, vbld, writers>>

BuilderNext ==
    \/ BuilderSend
    \/ BuilderReceive
    \/ BuilderAssertZero
    \/ BuilderAssertNotZero
    \/ BuilderAddChannel
    \/ BuilderAddCommitted
    \/ BuilderAddCommittedMultiple
    \/ BuilderAddTransparent
    \/ Build

SpecBuilder == BuilderInit /\ [][BuilderNext]_vars

\* b2.flushes is b1.flushes and one more flush, of the given direction,
\* channel and oracles.
OneFlushAppended(b1, b2, direction, channel_id, oracle_ids) ==
    /\ Len(b2.flushes) = Len(b1.flushes) + 1
    /\ SubSeq(b2.flushes, 1, Len(b1.flushes)) = b1.flushes
    /\ b2.flushes[Len(b2.flushes)].direction = direction
    /\ b2.flushes[Len(b2.flushes)].channel_id = channel_id
    /\ b2.flushes[Len(b2.flushes)].oracles = oracle_ids

FlushCount(b, direction, channel_id, oracle_ids) ==
    Cardinality({i \in DOMAIN b.flushes :
        /\ b.flushes[i].direction = direction
        /\ b.flushes[i].channel_id = channel_id
        /\ b.flushes[i].oracles = oracle_ids})

LedgerBalanced(b) ==
    \A channel_id \in ChannelIds, oracle_ids \in OracleTuples :
        FlushCount(b, "Push", channel_id, oracle_ids)
            = FlushCount(b, "Pull", channel_id, oracle_ids)

ConstraintIdsValid(b) ==
    \A i \in DOMAIN b.constraints : \A j \in DOMAIN b.constraints[i].oracles :
        b.constraints[i].oracles[j] < Len(b.oracles)

\* C12: the ledger only records.  send appends one push flush and receive one
\* pull flush, with the channel id and the oracle tuple of the call, after
\* the flushes recorded before, whatever the ledger holds; build() fails
\* only on an invalid constraint, balanced ledger or not.
C12_LedgerRecords ==
    [][/\ ret'.op = "send" =>
            OneFlushAppended(bld, bld', "Push", ret'.channel_id, ret'.oracle_ids)
       /\ ret'.op = "receive" =>
            OneFlushAppended(bld, bld', "Pull", ret'.channel_id, ret'.oracle_ids)
       /\ (ret'.op = "build" /\ ConstraintIdsValid(bld)) =>
            (ret'.res = "Ok" /\ ret'.cs.flushes = bld.flushes)]_vars

\* build() has succeeded on a ledger that does not balance, in which the
\* same flush was sent twice.
C12_Witness ==
    /\ ret.op = "build"
    /\ ret.res = "Ok"
    /\ ~LedgerBalanced(bld)
    /\ \E i, j \in DOMAIN bld.flushes : i < j /\ bld.flushes[i] = bld.flushes[j]
    /\ \E i \in DOMAIN bld.flushes : bld.flushes[i].direction = "Pull"

\* C13: add_channel returns 0 on a fresh builder and then the id it returned
\* before plus one, an id it never returned before; it alone moves the
\* channel counter, and the counter never goes back.
C13_ChannelIds ==
    [][/\ ret'.op = "add_channel" =>
            /\ ret'.channel_id = IF inp = <<>> THEN 0 ELSE inp[Len(inp)] + 1
            /\ \A i \in DOMAIN inp : inp[i] # ret'.channel_id
            /\ bld'.next_channel_id = ret'.channel_id + 1
       /\ ret'.op # "add_channel" => bld'.next_channel_id = bld.next_channel_id
       /\ bld'.next_channel_id >= bld.next_channel_id]_vars

\* Three channels were allocated, with another operation between them.
C13_Witness ==
    /\ inp = <<0, 1, 2>>
    /\ ret.op = "add_channel"
    /\ Len(bld.flushes) = 1

(***************************************************************************)
(* SpecNames: oracles are created between push_namespace and pop_namespace *)
(* calls.  inp is the sequence of namespace calls made so far, a name for  *)
(* a push and "pop" for a pop; ret holds the last call.                    *)
(***************************************************************************)
NamespaceNames == <<"a", "b", "c">>

OracleNames == {"y", "z"}

NamesInit ==
    /\ pc = "names"
    /\ inp = <<>>
    /\ bld = ConstraintSystemBuilder_new
    /\ vbld = ConstraintSystemBuilder_new
    /\ writers = {}
    /\ ret = [op |-> "new"]

PushNamespace ==
    /\ pc = "names"
    /\ Len(inp) < MaxLog
    /\ Len(bld.namespace_path) < MaxDepth
    /\ \E name \in {NamespaceNames[Len(bld.namespace_path) + 1]} :
          /\ bld' = push_namespace(bld, name)
          /\ inp' = Append(inp, name)
    /\ ret' = [op |-> "push_namespace"]
    /\ UNCHANGED <<pc, vbld, writers>>

PopNamespace ==
    /\ pc = "names"
    /\ Len(inp) < MaxLog
    /\ bld' = pop_namespace(bld)
    /\ inp' = Append(inp, "pop")
    /\ ret' = [op |-> "pop_namespace"]
    /\ UNCHANGED <<pc, vbld, writers>>

NamesAddCommitted ==
    /\ pc = "names"
    /\ Len(bld.oracles) < MaxNameOps
    /\ \E name \in OracleNames :
       \E r \in {add_committed(bld, name, 3, B1_TOWER_LEVEL)} :
          /\ bld' = r.b
          /\ ret' = [op |-> "add_committed", name |-> name, id |-> r.id]
    /\ UNCHANGED <<pc, inp, vbld, writers>>

NamesAddTransparent ==
    /\ pc = "names"
    /\ Len(bld.oracles) < MaxNameOps
    /\ \E name \in OracleNames :
       \E r \in {add_transparent(bld, name, 3, B1_TOWER_LEVEL)} :
          /\ bld' = r.b
          /\ ret' = [op |-> "add_transparent", name |-> name, id |-> r.id]
    /\ UNCHANGED <<pc, inp, vbld, writers>>

NamesNext ==
    \/ PushNamespace
    \/ PopNamespace
    \/ NamesAddCommitted
    \/ NamesAddTransparent

SpecNames == NamesInit /\ [][NamesNext]_vars

\* The namespaces in force after the calls of log, outermost first: a name
\* is a push, "pop" removes the innermost one if there is one.
RECURSIVE NamespaceStack(_)
NamespaceStack(log) ==
    IF log = <<>> THEN <<>>
    ELSE LET before == NamespaceStack(SubSeq(log, 1, Len(log) - 1))
             call   == log[Len(log)]
         IN  IF call # "pop" THEN Append(before, call)
             ELSE IF before = <<>> THEN before
             ELSE SubSeq(before, 1, Len(before) - 1)

\* C14: an oracle added under the namespaces s1 .. sk gets the name
\* s1::...::sk::name, and the plain name under no namespace: after push a,
\* push b the oracle y is a::b::y, and after the pops z is z.
C14_ScopedNames ==
    [][ret'.op \in {"add_committed", "add_transparent"} =>
          LET stack == NamespaceStack(inp)
              given == bld'.oracles[Len(bld'.oracles)].name
          IN  /\ Len(bld'.oracles) = Len(bld.oracles) + 1
              /\ stack = <<>> => given = ret'.name
              /\ Len(stack) = 1 => given = stack[1] \o "::" \o ret'.name
              /\ Len(stack) = 2 =>
                    given = stack[1] \o "::" \o stack[2] \o "::" \o ret'.name
              /\ Len(stack) >= 3 =>
                    given = join(stack, "::") \o "::" \o ret'.name
              /\ (inp = <<"a", "b">> /\ ret'.name = "y") => given = "a::b::y"
              /\ (inp = <<"a", "b", "pop", "pop">> /\ ret'.name = "z") => given = "z"]_vars

\* y was added under a and b, and z after both were popped.
C14_Witness ==
    /\ pc = "names"
    /\ inp = <<"a", "b", "pop", "pop">>
    /\ Len(bld.oracles) = 2
    /\ bld.oracles[1].name = "a::b::y"
    /\ bld.oracles[2].name = "z"

(***************************************************************************)
(* SpecPair: two builders are given the same oracle, constraint, channel   *)
(* and flush calls, and each its own push_namespace and pop_namespace      *)
(* calls, balanced or not.                                                 *)
(***************************************************************************)
PairInit ==
    /\ pc = "pair"
    /\ inp = <<>>
    /\ bld = ConstraintSystemBuilder_new
    /\ vbld = ConstraintSystemBuilder_new
    /\ writers = {}
    /\ ret = [op |-> "new"]

PairPushNamespace ==
    /\ pc = "pair"
    /\ Len(bld.namespace_path) < MaxDepth
    /\ bld' = push_namespace(bld, NamespaceNames[Len(bld.namespace_path) + 1])
    /\ ret' = [op |-> "push_namespace"]
    /\ UNCHANGED <<pc, inp, vbld, writers>>

PairPopNamespace ==
    /\ pc = "pair"
    /\ bld' = pop_namespace(bld)
    /\ ret' = [op |-> "pop_namespace"]
    /\ UNCHANGED <<pc, inp, vbld, writers>>

PairPushNamespaceOther ==
    /\ pc = "pair"
    /\ Len(vbld.namespace_path) < MaxDepth
    /\ vbld' = push_namespace(vbld, "v")
    /\ ret' = [op |-> "push_namespace"]
    /\ UNCHANGED <<pc, inp, bld, writers>>

PairPopNamespaceOther ==
    /\ pc = "pair"
    /\ vbld' = pop_namespace(vbld)
    /\ ret' = [op |-> "pop_namespace"]
    /\ UNCHANGED <<pc, inp, bld, writers>>

PairAddCommitted ==
    /\ pc = "pair"
    /\ OpCount(bld) < MaxPairOps
    /\ \E shape \in CommittedShapes :
       \E r \in {add_committed(bld, "y", shape[1], shape[2])} :
       \E v \in {add_committed(vbld, "y", shape[1], shape[2])} :
          /\ bld' = r.b
          /\ vbld' = v.b
          /\ ret' = [op |-> "add_committed", id |-> r.id, vid |-> v.id]
    /\ UNCHANGED <<pc, inp, writers>>

PairAssertZero ==
    /\ pc = "pair"
    /\ OpCount(bld) < MaxPairOps
    /\ bld' = assert_zero(bld, "zero", <<0>>, "sum")
    /\ vbld' = assert_zero(vbld, "zero", <<0>>, "sum")
    /\ ret' = [op |-> "assert_zero"]
    /\ UNCHANGED <<pc, inp, writers>>

PairAssertNotZero ==
    /\ pc = "pair"
    /\ OpCount(bld) < MaxPairOps
    /\ bld' = assert_not_zero(bld, 0)
    /\ vbld' = assert_not_zero(vbld, 0)
    /\ ret' = [op |-> "assert_not_zero"]
    /\ UNCHANGED <<pc, inp, writers>>

PairAddChannel ==
    /\ pc = "pair"
    /\ OpCount(bld) < MaxPairOps
    /\ \E r \in {add_channel(bld)}, v \in {add_channel(vbld)} :
          /\ bld' = r.b
          /\ vbld' = v.b
          /\ ret' = [op |-> "add_channel", id |-> r.channel_id, vid |-> v.channel_id]
    /\ UNCHANGED <<pc, inp, writers>>

PairSend ==
    /\ pc = "pair"
    /\ OpCount(bld) < MaxPairOps
    /\ bld' = send(bld, 0, 1, <<0>>)
    /\ vbld' = send(vbld, 0, 1, <<0>>)
    /\ ret' = [op |-> "send"]
    /\ UNCHANGED <<pc, inp, writers>>

PairNext ==
    \/ PairPushNamespace
    \/ PairPopNamespace
    \/ PairPushNamespaceOther
    \/ PairPopNamespaceOther
    \/ PairAddCommitted
    \/ PairAssertZero
    \/ PairAssertNotZero
    \/ PairAddChannel
    \/ PairSend

SpecPair == PairInit /\ [][PairNext]_vars

\* What a builder holds besides names: the oracles without their names, the
\* batch table, the constraints (oracle tuple and composition, which is what
\* assert_zero of builder.rs records), the non-zero list, the flushes and the
\* channel counter.
Unnamed(b) ==
    [oracles             |-> [i \in DOMAIN b.oracles |-> [b.oracles[i] EXCEPT !.name = ""]],
     batches             |-> b.batches,
     batch_ids           |-> b.batch_ids,
     constraints         |-> [i \in DOMAIN b.constraints |->
                                <<b.constraints[i].oracles, b.constraints[i].composition>>],
     constraints_base    |-> [i \in DOMAIN b.constraints_base |->
                                <<b.constraints_base[i].oracles,
                                  b.constraints_base[i].composition>>],
     non_zero_oracle_ids |-> b.non_zero_oracle_ids,
     flushes             |-> b.flushes,
     next_channel_id     |-> b.next_channel_id]

\* C15: namespaces are cosmetic.  Two builders given the same operations and
\* different push_namespace and pop_namespace calls hold the same oracles
\* under the same ids, the same batches, constraints, non-zero list, flushes
\* and channel counter, and were returned the same ids.
C15_NamespacesCosmetic ==
    /\ Unnamed(bld) = Unnamed(vbld)
    /\ ret.op \in {"add_committed", "add_channel"} => ret.id = ret.vid

\* The first builder ends inside two namespaces, the second one inside
\* another; an oracle got different names in the two.
C15_Witness ==
    /\ pc = "pair"
    /\ bld.namespace_path = <<"a", "b">>
    /\ vbld.namespace_path # <<>>
    /\ Len(bld.oracles) = 2
    /\ bld.oracles[2].name # vbld.oracles[2].name
    /\ bld.oracles[1].batch # bld.oracles[2].batch

\* The zero-checks of a constraint list: oracle tuples and compositions.
ZeroChecks(constraints) ==
    [i \in DOMAIN constraints |-> <<constraints[i].oracles, constraints[i].composition>>]

\* C16: the full and the base constraint set hold the same zero-checks in
\* the same order; assert_zero appends one constraint, of the oracle tuple
\* and composition it was given, to both, and no other operation changes
\* either of them.
C16_ParallelSets ==
    [][/\ ZeroChecks(bld'.constraints) = ZeroChecks(bld'.constraints_base)
       /\ ret'.op = "assert_zero" =>
            /\ ZeroChecks(bld'.constraints)
                  = Append(ZeroChecks(bld.constraints), <<ret'.oracle_ids, "sum">>)
            /\ ZeroChecks(bld'.constraints_base)
                  = Append(ZeroChecks(bld.constraints_base), <<ret'.oracle_ids, "sum">>)
       /\ ret'.op # "assert_zero" =>
            /\ bld'.constraints = bld.constraints
            /\ bld'.constraints_base = bld.constraints_base
       /\ (ret'.op = "build" /\ ret'.res = "Ok") =>
            ZeroChecks(ret'.cs.table_constraints)
                = ZeroChecks(ret'.cs.table_constraints_base)]_vars

\* Two different constraints were recorded over two oracles and built.
C16_Witness ==
    /\ ret.op = "build"
    /\ ret.res = "Ok"
    /\ Len(bld.constraints) = 2
    /\ Len(bld.constraints_base) = 2
    /\ bld.constraints[1].oracles # bld.constraints[2].oracles

IsPrefix(s, t) == Len(s) <= Len(t) /\ SubSeq(t, 1, Len(s)) = s

\* C17: every builder operation is additive.  Each step leaves the oracle
\* list, both constraint lists, the non-zero list, the flush list and the
\* batch table as prefixes of their new values, and a new oracle gets the
\* next id in creation order, so that no id is given twice or comes to
\* denote another oracle.
C17_Additive ==
    [][/\ IsPrefix(bld.oracles, bld'.oracles)
       /\ IsPrefix(bld.constraints, bld'.constraints)
       /\ IsPrefix(bld.constraints_base, bld'.constraints_base)
       /\ IsPrefix(bld.non_zero_oracle_ids, bld'.non_zero_oracle_ids)
       /\ IsPrefix(bld.flushes, bld'.flushes)
       /\ IsPrefix(bld.batches, bld'.batches)
       /\ IsPrefix(bld.batch_ids, bld'.batch_ids)
       /\ ret'.op \in {"add_committed", "add_transparent"} =>
            /\ ret'.id = Len(bld.oracles)
            /\ Len(bld'.oracles) = Len(bld.oracles) + 1
       /\ ret'.op = "add_committed_multiple" =>
            /\ ret'.ids = <<Len(bld.oracles), Len(bld.oracles) + 1>>
            /\ Len(bld'.oracles) = Len(bld.oracles) + 2]_vars

\* Oracles of two batches were created and two different non-zero
\* assertions recorded.
C17_Witness ==
    /\ pc = "builder"
    /\ Len(bld.oracles) = 2
    /\ Len(bld.batches) = 2
    /\ Len(bld.non_zero_oracle_ids) = 2
    /\ bld.non_zero_oracle_ids[1] # bld.non_zero_oracle_ids[2]

\* C18: the constraint system build() returns has as max_channel_id the
\* largest channel id of the recorded flushes, 0 when there is none, and
\* holds the recorded flushes and non-zero assertions in recording order.
C18_BuildExports ==
    [][(ret'.op = "build" /\ ret'.res = "Ok") =>
          /\ bld.flushes = <<>> => ret'.cs.max_channel_id = 0
          /\ bld.flushes # <<>> =>
                /\ \E i \in DOMAIN bld.flushes :
                      bld.flushes[i].channel_id = ret'.cs.max_channel_id
                /\ \A i \in DOMAIN bld.flushes :
                      bld.flushes[i].channel_id <= ret'.cs.max_channel_id
          /\ ret'.cs.flushes = bld.flushes
          /\ ret'.cs.non_zero_oracle_ids = bld.non_zero_oracle_ids]_vars

\* A system was built whose largest channel id is not that of the last
\* flush, with a non-zero assertion recorded.
C18_Witness ==
    /\ ret.op = "build"
    /\ ret.res = "Ok"
    /\ Len(bld.flushes) >= 2
    /\ ret.cs.max_channel_id = 2
    /\ bld.flushes[Len(bld.flushes)].channel_id = 0
    /\ bld.non_zero_oracle_ids # <<>>

\* C19: assert_zero records a constraint over any ids, valid or not at the
\* time of the call; build() returns an error and no constraint system when a
\* recorded constraint refers to an id the final oracle set does not hold,
\* and the constraint system when every id is valid.
C19_LateValidation ==
    [][/\ ret'.op = "assert_zero" =>
            /\ Len(bld'.constraints) = Len(bld.constraints) + 1
            /\ bld'.constraints[Len(bld'.constraints)].oracles = ret'.oracle_ids
       /\ ret'.op = "build" =>
            /\ (ret'.res = "Err") = ~ConstraintIdsValid(bld)
            /\ ret'.res = "Err" => ret'.cs = NoConstraintSystem
            /\ ret'.res = "Ok" =>
                  /\ ret'.cs.some
                  /\ ret'.cs.oracles = bld.oracles
                  /\ ret'.cs.table_constraints = bld.constraints]_vars

\* build() has failed on a constraint over oracle 1, which assert_zero
\* accepted and no call created; the other recorded constraint
\* is valid.
C19_Witness ==
    /\ ret.op = "build"
    /\ ret.res = "Err"
    /\ Len(bld.oracles) = 1
    /\ Len(bld.constraints) = 2
    /\ bld.constraints[1].oracles = <<1, 0>>
    /\ bld.constraints[2].oracles = <<0>>

(***************************************************************************)
(* SpecFinalize: columns are set or written in the arena and the witness   *)
(* is taken, with either result of update_multilin_poly.  inp holds the    *)
(* oracle ids for which new_column has returned a writer.                  *)
(***************************************************************************)
UpdateResults == {"Ok", "Error"}

FinalizeInit ==
    /\ pc = "finalize"
    /\ inp = {}
    /\ bld = ConstraintSystemBuilder_new_with_witness
    /\ vbld = ConstraintSystemBuilder_new
    /\ writers = {}
    /\ ret = [op |-> "none"]

FinalizeSetData ==
    /\ pc = "finalize"
    /\ \E id \in Ids, level \in {B1_TOWER_LEVEL, F_TOWER_LEVEL} :
       \E data \in [1 .. 1 -> UVals] \cup {<<0, 0>>} :
       \E r \in {set_data(bld.witness, id, level, LOG_WIDTH(level), data)} :
          /\ bld' = [bld EXCEPT !.witness = r.w]
          /\ ret' = [op |-> "set_data", res |-> r.err]
    /\ UNCHANGED <<pc, inp, vbld, writers>>

\* A column writer is created; it is alive until FinalizeDropWriter.
FinalizeNewColumn ==
    /\ pc = "finalize"
    /\ bld.witness.some
    /\ Cardinality(writers) < MaxWriters
    /\ \E id \in Ids, level \in {B1_TOWER_LEVEL, F_TOWER_LEVEL} :
          /\ writers' = writers \cup
                 {[buf |-> FreshBuf, w |-> new_column(id, level, LOG_WIDTH(level))]}
          /\ inp' = inp \cup {id}
    /\ ret' = [op |-> "new_column", res |-> "Ok"]
    /\ UNCHANGED <<pc, bld, vbld>>

FinalizeDropWriter ==
    /\ pc = "finalize"
    /\ \E e \in writers :
          /\ writers' = writers \ {e}
          /\ bld' = [bld EXCEPT !.witness = drop_EntryBuilder(@, e.w)]
    /\ ret' = [op |-> "drop", res |-> "Ok"]
    /\ UNCHANGED <<pc, inp, vbld>>

FinalizeTakeWitness ==
    /\ pc = "finalize"
    /\ \E updated \in UpdateResults :
       \E t \in {take_witness(bld, writers # {}, updated)} :
          /\ bld' = t.b
          /\ ret' = [op |-> "take_witness", updated |-> updated, res |-> t.res,
                     index |-> t.index]
    /\ pc' = "taken"
    /\ UNCHANGED <<inp, vbld, writers>>

FinalizeNext ==
    \/ FinalizeSetData
    \/ FinalizeNewColumn
    \/ FinalizeDropWriter
    \/ FinalizeTakeWitness

SpecFinalize == FinalizeInit /\ [][FinalizeNext]_vars

\* C20: when the finalization of the arena fails, take_witness tells its
\* caller so: it returns an error or ends in a panic, and does not return
\* an ordinary value.
C20_FailureSurfaced ==
    [][(ret'.op = "take_witness" /\ ret'.updated = "Error") =>
          ret'.res \in {"Err", "panic"}]_vars

\* C36: take_witness called while a column writer is alive returns no index
\* (it panics), and an index that take_witness returns holds a column under
\* the id of every writer new_column has returned.
C36_LiveWriterFails ==
    [][ret'.op = "take_witness" =>
          /\ writers # {} => (ret'.res = "panic" /\ ret'.index = <<>>)
          /\ ret'.res = "Some" =>
                 /\ writers = {}
                 /\ \A id \in inp : id \in DOMAIN ret'.index]_vars

\* take_witness has panicked with one writer alive and another one dropped.
C36_Witness ==
    /\ pc = "taken"
    /\ ret.op = "take_witness"
    /\ ret.res = "panic"
    /\ Cardinality(writers) = 1
    /\ inp = Ids
    /\ \E id \in Ids : witness_get(bld.witness, id, F_TOWER_LEVEL).err = "MissingWitness"

(***************************************************************************)
(* SpecArith: a u32 gadget on filled columns of a prover.                  *)
(***************************************************************************)
\* For mul_const, y is the constant and only the column of x is filled; the
\* column of z is filled for add3 alone.
Gadgets == {"add", "sub", "mul_const", "add3"}

ArithInit ==
    /\ pc = "arith_start"
    /\ inp \in {i \in [x : Words, y : Words, z : Words,
                       flags : {"Checked", "Unchecked"}, gadget : Gadgets] :
                    i.gadget # "add3" => i.z = 0}
    /\ bld = ConstraintSystemBuilder_new_with_witness
    /\ vbld = ConstraintSystemBuilder_new
    /\ writers = {}
    /\ ret = Idle

ArithColumns ==
    /\ pc = "arith_start"
    /\ \E a \in {u32_filled(bld, "a", inp.x)} :
       \E c \in {IF inp.gadget = "mul_const" THEN a ELSE u32_filled(a.b, "b", inp.y)} :
       \E d \in {IF inp.gadget = "add3" THEN u32_filled(c.b, "d", inp.z) ELSE c} :
           /\ bld' = d.b
           /\ ret' = [res |-> "Ok", xin |-> a.id, yin |-> c.id, zin |-> d.id]
    /\ pc' = "arith_columns"
    /\ UNCHANGED <<inp, vbld, writers>>

ArithGadget ==
    /\ pc = "arith_columns"
    /\ \E r \in {CASE inp.gadget = "add" -> add(bld, "c", ret.xin, ret.yin, inp.flags)
                   [] inp.gadget = "sub" -> sub(bld, "c", ret.xin, ret.yin, inp.flags)
                   [] inp.gadget = "mul_const" ->
                          mul_const(bld, "c", ret.xin, inp.y, inp.flags)
                   [] inp.gadget = "add3" ->
                          add3(bld, "c", ret.xin, ret.yin, ret.zin, inp.flags)} :
           /\ bld' = r.b
           /\ ret' = [res |-> r.res, xin |-> ret.xin, yin |-> ret.yin, zin |-> ret.zin,
                      out |-> r.out]
    /\ pc' = "arith_done"
    /\ UNCHANGED <<inp, vbld, writers>>

ArithNext == ArithColumns \/ ArithGadget

SpecArith == ArithInit /\ [][ArithNext]_vars

\* C21: the columns sub writes satisfy the sum relation xout + yin + cin - zin
\* and the carry relation on every bit, xout is (z - y) mod 2^WordBits in
\* every word, and with Flags::Checked the underflow constraint on the top
\* bit of cout is violated exactly when z < y.
C21_SubRelations ==
    (pc = "arith_done" /\ inp.gadget = "sub") =>
        /\ ret.res = "Ok"
        /\ ConstraintsNamed(bld, "c::sum") # {}
        /\ ConstraintsNamed(bld, "c::carry") # {}
        /\ \A i \in ConstraintsNamed(bld, "c::sum") :
               /\ bld.constraints[i].oracles[1] = ret.out[1]
               /\ bld.constraints[i].oracles[2] = ret.yin
               /\ bld.constraints[i].oracles[4] = ret.xin
               /\ ConstraintHolds(bld, bld.constraints[i])
        /\ \A i \in ConstraintsNamed(bld, "c::carry") :
               ConstraintHolds(bld, bld.constraints[i])
        /\ \A i \in DOMAIN as_slice_u32(Col(bld, ret.out[1])) :
               as_slice_u32(Col(bld, ret.out[1]))[i]
                   = (inp.x - inp.y + Pow2(WordBits)) % Pow2(WordBits)
        /\ (inp.flags = "Checked") = (ConstraintsNamed(bld, "c::underflow") # {})
        /\ \A i \in ConstraintsNamed(bld, "c::underflow") :
               ~ConstraintHolds(bld, bld.constraints[i]) <=> inp.x < inp.y

\* A checked subtraction with z < y: the underflow constraint is violated.
C21_Witness ==
    /\ pc = "arith_done"
    /\ inp.gadget = "sub"
    /\ ret.res = "Ok"
    /\ inp.flags = "Checked"
    /\ inp.x < inp.y
    /\ \E i \in ConstraintsNamed(bld, "c::underflow") :
           ~ConstraintHolds(bld, bld.constraints[i])

OverflowConstraints(b) ==
    {i \in DOMAIN b.constraints : b.constraints[i].composition = "overflow"}

\* C22: the result column of mul_const is (input * value) mod 2^WordBits in
\* every word, the written columns satisfy every constraint that is no
\* overflow check, and the overflow checks, present only under
\* Flags::Checked, are all satisfied exactly when input * value < 2^WordBits.
C22_MulConst ==
    (pc = "arith_done" /\ inp.gadget = "mul_const") =>
        /\ ret.res = "Ok"
        /\ \A i \in DOMAIN as_slice_u32(Col(bld, ret.out[1])) :
               as_slice_u32(Col(bld, ret.out[1]))[i] = (inp.x * inp.y) % Pow2(WordBits)
        /\ \A i \in DOMAIN bld.constraints \ OverflowConstraints(bld) :
               ConstraintHolds(bld, bld.constraints[i])
        /\ inp.flags = "Unchecked" => OverflowConstraints(bld) = {}
        /\ inp.flags = "Checked" =>
               ((\A i \in OverflowConstraints(bld) : ConstraintHolds(bld, bld.constraints[i]))
                    <=> inp.x * inp.y < Pow2(WordBits))

\* The second highest bit of the input is set and the constant is 3: a shift
\* overflow check and the overflow check of the addition are recorded and
\* satisfied.
C22_Witness ==
    /\ pc = "arith_done"
    /\ inp.gadget = "mul_const"
    /\ inp.flags = "Checked"
    /\ inp.x = Pow2(WordBits - 2)
    /\ inp.y = 3
    /\ ret.res = "Ok"
    /\ Cardinality(OverflowConstraints(bld)) = 2
    /\ \A i \in OverflowConstraints(bld) : ConstraintHolds(bld, bld.constraints[i])

\* C30: in add and in sub the cin column written to the witness is the cout
\* column shifted left by one bit within each word: bit i of cin is bit i - 1
\* of cout and bit 0 of cin is 0, as the shifted oracle cin is registered as
\* says.
C30_CinIsShiftedCout ==
    (pc = "arith_done" /\ inp.gadget \in {"add", "sub"}) =>
        LET cin  == OracleNamed(bld, "c::cin")
            cout == OracleNamed(bld, "c::cout")
        IN  /\ bld.oracles[cin + 1].kind = "shifted"
            /\ bld.oracles[cin + 1].inner = <<cout>>
            /\ Len(Col(bld, cin)) = Len(Col(bld, cout))
            /\ \A r \in DOMAIN Col(bld, cin) :
                   Col(bld, cin)[r] = IF (r - 1) % WordBits = 0 THEN 0
                                      ELSE Col(bld, cout)[r - 1]

\* A subtraction with a borrow: the top bit of cout is set and is no bit of
\* cin.
C30_Witness ==
    /\ pc = "arith_done"
    /\ inp.gadget = "sub"
    /\ inp.x < inp.y
    /\ ret.res = "Ok"
    /\ Col(bld, OracleNamed(bld, "c::cout"))[WordBits] = 1
    /\ \E r \in DOMAIN Col(bld, OracleNamed(bld, "c::cin")) :
           Col(bld, OracleNamed(bld, "c::cin"))[r] = 1

(***************************************************************************)
(* examples/acc-projected.rs: a column of bytes is projected to a column   *)
(* of BinaryField128b elements.                                            *)
(***************************************************************************)
F8_TOWER_LEVEL == 3

\* The value of a query whose first element is bit 0.
RECURSIVE little_endian(_)
little_endian(binary) ==
    IF binary = <<>> THEN 0 ELSE binary[1] + 2 * little_endian(Tail(binary))

\* U8U128ProjectionInfo::new, LastVars: the query is padded with zeroes to
\* log_size elements and its first element weighs 2^(log_size - 1).
RECURSIVE last_vars_value(_, _)
last_vars_value(log_size, binary) ==
    IF binary = <<>> THEN 0
    ELSE binary[1] * Pow2(log_size - 1) + last_vars_value(log_size - 1, Tail(binary))

\* U8U128ProjectionInfo::new: its two assertions.
U8U128ProjectionInfo_new(info) ==
    IF info.log_size < Len(info.binary) THEN "panic"
    ELSE IF info.variant = "LastVars"
            /\ info.decimal # last_vars_value(info.log_size, info.binary)
    THEN "panic"
    ELSE "Ok"

\* expected_projection_len
expected_projection_len(info) == Pow2(info.log_size - Len(info.binary))

\* The bytes a generator of state seed yields.
rng_bytes(seed, len) == [i \in 1 .. len |-> (seed.m * (i - 1) + seed.a) % 256]

\* unconstrained::<F8>: a committed oracle whose column is filled with the
\* bytes of a generator.
unconstrained(b, name, log_size, seed) ==
    Bind(add_committed(b, name, log_size, F8_TOWER_LEVEL), LAMBDA r :
    IF ~r.b.witness.some THEN r
    ELSE [r EXCEPT !.b.witness = drop_EntryBuilder(@,
             [id |-> r.id, level |-> F8_TOWER_LEVEL, log_rows |-> log_size,
              data |-> rng_bytes(seed, oracle_column_len(F8_TOWER_LEVEL, log_size))])])

\* Mutant of first_vars_index: the offset regularity of LastVars.
first_vars_index_offset(idx, k, decimal) == decimal + idx

\* The input row a FirstVars projection of a k-element query reads for its
\* row idx.
first_vars_index(idx, k, decimal) == idx * Pow2(k) + decimal

\* The input row a LastVars projection reads for its row idx.
last_vars_index(idx, k, decimal) == decimal + idx

projection_index(info, idx) ==
    IF info.variant = "FirstVars"
    THEN first_vars_index(idx, Len(info.binary), info.decimal)
    ELSE last_vars_index(idx, Len(info.binary), info.decimal)

\* projection, the witness part: [res, w].  The column of the projected
\* oracle is written through a writer dropped at the end of the block; a
\* failed assert_eq and an index past the input slice are panics.
projection_witness(w, input, projected, n_vars, info) ==
    Bind(witness_get(w, input, F8_TOWER_LEVEL), LAMBDA g :
    IF g.err # "Ok" THEN [res |-> "panic", w |-> w]
    ELSE IF oracle_column_len(F_TOWER_LEVEL, n_vars) # expected_projection_len(info)
    THEN [res |-> "panic", w |-> w]
    ELSE IF \E idx \in 0 .. (expected_projection_len(info) - 1) :
                projection_index(info, idx) >= Len(g.data)
    THEN [res |-> "panic", w |-> w]
    ELSE [res |-> "Ok",
          w   |-> drop_EntryBuilder(w,
                    [id |-> projected, level |-> F_TOWER_LEVEL, log_rows |-> n_vars,
                     data |-> [i \in 1 .. expected_projection_len(info) |->
                                 g.data[projection_index(info, i - 1) + 1]]])])

\* projection: [b, res, out], out the ids of the input and projected oracles.
projection(b, info, seed) ==
    Bind(unconstrained(push_namespace(b, "projection"), "in", info.log_size, seed),
         LAMBDA input :
    Bind(add_projected(input.b, "projected", input.id, Len(info.binary), info.variant),
         LAMBDA projected :
    IF projected.id < 0 THEN Result(input.b, "panic", <<input.id>>)
    ELSE IF ~projected.b.witness.some
    THEN Result(pop_namespace(projected.b), "Ok", <<input.id, projected.id>>)
    ELSE Bind(projection_witness(projected.b.witness, input.id, projected.id,
                                 info.log_size - Len(info.binary), info),
              LAMBDA pw :
         IF pw.res # "Ok" THEN Result(projected.b, "panic", <<input.id, projected.id>>)
         ELSE Result(pop_namespace([projected.b EXCEPT !.witness = pw.w]), "Ok",
                     <<input.id, projected.id>>))))

(***************************************************************************)
(* SpecProjected: main of acc-projected.rs makes a U8U128ProjectionInfo    *)
(* and runs projection on a prover's builder.                              *)
(***************************************************************************)
Seeds == {[m |-> 1, a |-> 0], [m |-> 3, a |-> 7]}

Queries(log_size) == UNION {[1 .. l -> {0, 1}] : l \in 0 .. (log_size + 1)}

Decimals(log_size, binary) ==
    {little_endian(binary), last_vars_value(Max(log_size, Len(binary)), binary),
     0, Pow2(log_size) - 1}

ProjectedInit ==
    /\ pc = "proj_start"
    /\ \E log_size \in 0 .. MaxLogSize :
       \E binary \in Queries(log_size) :
       \E decimal \in Decimals(log_size, binary) :
       \E variant \in {"FirstVars", "LastVars"} :
       \E seed \in Seeds :
          inp = [log_size |-> log_size, binary |-> binary, decimal |-> decimal,
                 variant |-> variant, seed |-> seed]
    /\ bld = ConstraintSystemBuilder_new_with_witness
    /\ vbld = ConstraintSystemBuilder_new
    /\ writers = {}
    /\ ret = Idle

ProjectionInfoNew ==
    /\ pc = "proj_start"
    /\ ret' = [res |-> U8U128ProjectionInfo_new(inp)]
    /\ pc' = IF ret'.res = "Ok" THEN "proj_info" ELSE "proj_panic"
    /\ UNCHANGED <<inp, bld, vbld, writers>>

Projection ==
    /\ pc = "proj_info"
    /\ \E r \in {projection(bld, inp, inp.seed)} :
          /\ bld' = r.b
          /\ ret' = [res |-> r.res, input |-> r.out[1],
                     projected |-> IF Len(r.out) > 1 THEN r.out[2] ELSE -1]
    /\ pc' = "proj_done"
    /\ UNCHANGED <<inp, vbld, writers>>

ProjectedNext == ProjectionInfoNew \/ Projection

SpecProjected == ProjectedInit /\ [][ProjectedNext]_vars

\* C23: a FirstVars projection run with the little-endian value d of its
\* k-element query succeeds on a column of 2^n rows, its column has exactly
\* 2^(n - k) rows and row idx holds input row idx * 2^k + d; with n = 6,
\* k = 4, d = 13 the column is input rows 13, 29, 45 and 61.
C23_FirstVars ==
    (/\ pc = "proj_done"
     /\ inp.variant = "FirstVars"
     /\ inp.decimal = little_endian(inp.binary)) =>
        /\ ret.res = "Ok"
        /\ Len(Col(bld, ret.projected)) = Pow2(inp.log_size - Len(inp.binary))
        /\ \A idx \in 0 .. (Pow2(inp.log_size - Len(inp.binary)) - 1) :
              Col(bld, ret.projected)[idx + 1] =
                 Col(bld, ret.input)[idx * Pow2(Len(inp.binary)) + inp.decimal + 1]
        /\ (inp.log_size = 6 /\ Len(inp.binary) = 4 /\ inp.decimal = 13) =>
              Col(bld, ret.projected) =
                 <<Col(bld, ret.input)[14], Col(bld, ret.input)[30],
                   Col(bld, ret.input)[46], Col(bld, ret.input)[62]>>

\* The projection of test_6: 64 rows, the query 1, 0, 1, 1 of value 13, and
\* an input whose rows 13, 29, 45 and 61 differ from each other.
C23_Witness ==
    /\ pc = "proj_done"
    /\ ret.res = "Ok"
    /\ inp.variant = "FirstVars"
    /\ inp.log_size = 6
    /\ inp.binary = <<1, 0, 1, 1>>
    /\ inp.decimal = 13
    /\ Len(Col(bld, ret.projected)) = 4
    /\ Cardinality(Range(Col(bld, ret.projected))) = 4

(***************************************************************************)
(* examples/acc-shifted.rs: gadgets that declare a shifted oracle and      *)
(* write its column with the integer operation on every block.  A column   *)
(* is held as its slice of blocks of 2^block_bits bits.                    *)
(***************************************************************************)
\* input_values[i] >> shift_offset
shift_right_block(x, offset, bits) == x \div Pow2(offset)

\* input_values[i] << shift_offset
shift_left_block(x, offset, bits) == (x * Pow2(offset)) % Pow2(bits)

\* input_values[i].rotate_left(rotation_offset)
rotate_left(x, offset, bits) ==
    ((x * Pow2(offset % bits)) % Pow2(bits)) + (x \div Pow2(bits - (offset % bits)))

\* Mutant of rotate_right: the block is rotated to the left.
rotate_right_as_left(x, offset, bits) ==
    ((x * Pow2(offset % bits)) % Pow2(bits)) + (x \div Pow2(bits - (offset % bits)))

\* input_values[i].rotate_right(rotation_offset)
rotate_right(x, offset, bits) ==
    (x \div Pow2(offset % bits)) + ((x % Pow2(offset % bits)) * Pow2(bits - (offset % bits)))

ShiftGadgets == {"shift_right", "shift_left", "rotate_left", "rotate_right"}

\* The variant each gadget declares.
shift_type(gadget) ==
    CASE gadget = "shift_right" -> "LogicalRight"
      [] gadget = "shift_left"  -> "LogicalLeft"
      [] OTHER                  -> "CircularLeft"

\* The offset each gadget declares: a right rotation by X is a CircularLeft
\* by the size of the block minus X.
shift_offset(gadget, offset, block_bits) ==
    IF gadget = "rotate_right" THEN Pow2(block_bits) - offset ELSE offset

\* The block each gadget writes for the input block x.
shift_block(gadget, x, offset, block_bits) ==
    CASE gadget = "shift_right"  -> shift_right_block(x, offset, Pow2(block_bits))
      [] gadget = "shift_left"   -> shift_left_block(x, offset, Pow2(block_bits))
      [] gadget = "rotate_left"  -> rotate_left(x, offset, Pow2(block_bits))
      [] gadget = "rotate_right" -> rotate_right(x, offset, Pow2(block_bits))

\* The blocks of a BinaryField1b column of log_size variables: whole
\* underliers.
block_count(log_size, block_bits) == Pow2(Max(log_size, U_LOG_BITS) - block_bits)

\* unconstrained::<F1>: a committed oracle whose column holds arbitrary
\* blocks.
unconstrained_blocks(b, name, log_size, blocks) ==
    Bind(add_committed(b, name, log_size, B1_TOWER_LEVEL), LAMBDA r :
    IF ~r.b.witness.some THEN r
    ELSE [r EXCEPT !.b.witness = drop_EntryBuilder(@,
             [id |-> r.id, level |-> B1_TOWER_LEVEL, log_rows |-> log_size,
              data |-> blocks])])

\* The witness part of a gadget: [res, w].
shift_witness(w, gadget, input, shifted, offset, block_bits) ==
    Bind(witness_get(w, input, B1_TOWER_LEVEL), LAMBDA g :
    IF g.err # "Ok" THEN [res |-> "panic", w |-> w]
    ELSE [res |-> "Ok",
          w   |-> drop_EntryBuilder(w,
                    [id |-> shifted, level |-> B1_TOWER_LEVEL, log_rows |-> block_bits,
                     data |-> [i \in 1 .. block_count(block_bits, block_bits) |->
                                 IF i <= Len(g.data)
                                 THEN shift_block(gadget, g.data[i], offset, block_bits)
                                 ELSE 0]])])

\* shift_right_gadget_u32, shift_left_gadget_u8, rotate_left_gadget_u16 and
\* rotate_right_gadget_u64 for a block of 2^block_bits bits and an offset:
\* [b, res, out], out the ids of the input and shifted oracles.
shift_gadget(b, gadget, offset, block_bits, blocks) ==
    Bind(unconstrained_blocks(push_namespace(b, gadget), "input", block_bits, blocks),
         LAMBDA input :
    Bind(add_shifted(input.b, "shifted", input.id,
                     shift_offset(gadget, offset, block_bits), block_bits,
                     shift_type(gadget)),
         LAMBDA shifted :
    IF shifted.id < 0 THEN Result(input.b, "panic", <<input.id>>)
    ELSE IF ~shifted.b.witness.some
    THEN Result(pop_namespace(shifted.b), "Ok", <<input.id, shifted.id>>)
    ELSE Bind(shift_witness(shifted.b.witness, gadget, input.id, shifted.id,
                            offset, block_bits),
              LAMBDA sw :
         IF sw.res # "Ok" THEN Result(shifted.b, "panic", <<input.id, shifted.id>>)
         ELSE Result(pop_namespace([shifted.b EXCEPT !.witness = sw.w]), "Ok",
                     <<input.id, shifted.id>>))))

\* A block of the shifted oracle as the oracle set defines it, bit by bit
\* from the block x of its inner oracle.
shifted_bit(x, i, offset, bits, variant) ==
    CASE variant = "CircularLeft" -> Bit(x, (i + bits - (offset % bits)) % bits)
      [] variant = "LogicalLeft"  -> IF i >= offset THEN Bit(x, i - offset) ELSE 0
      [] variant = "LogicalRight" -> IF i + offset < bits THEN Bit(x, i + offset) ELSE 0

RECURSIVE shifted_from(_, _, _, _, _)
shifted_from(x, i, offset, bits, variant) ==
    IF i = bits THEN 0
    ELSE shifted_bit(x, i, offset, bits, variant) * Pow2(i)
            + shifted_from(x, i + 1, offset, bits, variant)

shifted_block(x, offset, block_bits, variant) ==
    shifted_from(x, 0, offset, Pow2(block_bits), variant)

(***************************************************************************)
(* SpecShifted: two gadgets of acc-shifted.rs run one after the other on a *)
(* prover's builder, the arbitrary input of the second being the column    *)
(* the first wrote.                                                        *)
(***************************************************************************)
\* The first and the second gadget of a run.
ShiftPairs ==
    [rotate_left_left  |-> <<"rotate_left", "rotate_left">>,
     rotate_left_right |-> <<"rotate_left", "rotate_right">>,
     logical           |-> <<"shift_right", "shift_left">>]

\* The blocks of the first input: block_value and the values after it.
input_blocks(block_value, block_bits) ==
    [i \in 1 .. block_count(block_bits, block_bits) |->
        (block_value + i - 1) % Pow2(Pow2(block_bits))]

ShiftedInit ==
    /\ pc = "shift_start"
    /\ \E block_bits \in 0 .. MaxBlockBits :
       \E block_value \in 0 .. (Pow2(Pow2(block_bits)) - 1) :
       \E offset \in 0 .. (Pow2(block_bits) - 1) :
       \E pair \in DOMAIN ShiftPairs :
       \E offset2 \in IF pair = "rotate_left_left" THEN 0 .. (Pow2(block_bits) - 1)
                      ELSE {offset} :
          /\ pair = "rotate_left_right" => offset > 0
          /\ inp = [block_bits |-> block_bits, block_value |-> block_value,
                    offset |-> offset, pair |-> pair, offset2 |-> offset2]
    /\ bld = ConstraintSystemBuilder_new_with_witness
    /\ vbld = ConstraintSystemBuilder_new
    /\ writers = {}
    /\ ret = Idle

ShiftFirst ==
    /\ pc = "shift_start"
    /\ \E r \in {shift_gadget(bld, ShiftPairs[inp.pair][1], inp.offset, inp.block_bits,
                              input_blocks(inp.block_value, inp.block_bits))} :
          /\ bld' = r.b
          /\ ret' = [res |-> r.res, input |-> r.out[1], first |-> r.out[2]]
    /\ pc' = "shift_first"
    /\ UNCHANGED <<inp, vbld, writers>>

ShiftSecond ==
    /\ pc = "shift_first"
    /\ ret.res = "Ok"
    /\ \E r \in {shift_gadget(bld, ShiftPairs[inp.pair][2], inp.offset2, inp.block_bits,
                              Col(bld, ret.first))} :
          /\ bld' = r.b
          /\ ret' = [res |-> r.res, input |-> ret.input, first |-> ret.first,
                     copy |-> r.out[1], second |-> r.out[2],
                     declared |-> [offset  |-> shift_offset(ShiftPairs[inp.pair][2],
                                                            inp.offset2, inp.block_bits),
                                   variant |-> shift_type(ShiftPairs[inp.pair][2])]]
    /\ pc' = "shift_done"
    /\ UNCHANGED <<inp, vbld, writers>>

ShiftedNext == ShiftFirst \/ ShiftSecond

SpecShifted == ShiftedInit /\ [][ShiftedNext]_vars

\* The column the second gadget wrote is the first input.
RoundTrip == Col(bld, ret.second) = Col(bld, ret.input)

\* Bits are lost by a logical right shift of x by offset.
BitsLost(x, offset) == x % Pow2(offset) # 0

\* The columns the two gadgets wrote are the blocks of the oracles they
\* declared.
ShiftedAsDeclared ==
    /\ \A i \in DOMAIN Col(bld, ret.first) :
          Col(bld, ret.first)[i] =
             shifted_block(Col(bld, ret.input)[i], inp.offset, inp.block_bits,
                           shift_type(ShiftPairs[inp.pair][1]))
    /\ \A i \in DOMAIN Col(bld, ret.second) :
          Col(bld, ret.second)[i] =
             shifted_block(Col(bld, ret.first)[i], ret.declared.offset, inp.block_bits,
                           ret.declared.variant)

\* The logical round trip brings back exactly the blocks that lost no bit.
LogicalRoundTrip ==
    \A i \in DOMAIN Col(bld, ret.input) :
        (Col(bld, ret.second)[i] = Col(bld, ret.input)[i])
            <=> ~BitsLost(Col(bld, ret.input)[i], inp.offset)

\* C24: for every block of 2^block_bits bits and every offset o below
\* 2^block_bits, a circular-left shift by o followed by a circular-left shift
\* by (2^block_bits - o) mod 2^block_bits, or by the right rotation by o that
\* is declared as the circular-left shift by 2^block_bits - o, returns the
\* block; a logical right shift by o followed by a logical left shift by o
\* returns the block exactly when no bits are lost.
C24_ShiftRoundTrip ==
    pc = "shift_done" =>
        /\ ret.res = "Ok"
        /\ ShiftedAsDeclared
        /\ (/\ inp.pair = "rotate_left_left"
            /\ inp.offset2 = (Pow2(inp.block_bits) - inp.offset) % Pow2(inp.block_bits))
              => RoundTrip
        /\ inp.pair = "rotate_left_right" =>
              /\ RoundTrip
              /\ ret.declared = [offset  |-> Pow2(inp.block_bits) - inp.offset,
                                 variant |-> "CircularLeft"]
        /\ inp.pair = "logical" => LogicalRoundTrip

\* A block of four bits with one bit set, rotated left by 1 and then by 3.
C24_Witness ==
    /\ pc = "shift_done"
    /\ ret.res = "Ok"
    /\ inp.pair = "rotate_left_left"
    /\ inp.block_bits = 2
    /\ inp.offset = 1
    /\ inp.offset2 = 3
    /\ Col(bld, ret.input)[1] = 1
    /\ Col(bld, ret.first)[1] = 2
    /\ Col(bld, ret.second)[1] = 1

\* C24 as stated: the second circular-left shift is by block_bits - o.
C24_AsStated ==
    pc = "shift_done" =>
        /\ (/\ inp.pair = "rotate_left_left"
            /\ inp.offset <= inp.block_bits
            /\ inp.offset2 = inp.block_bits - inp.offset)
              => RoundTrip
        /\ inp.pair = "logical" => LogicalRoundTrip

\* C25: every new_column step of SpecArena returns a writer: its buffer is
\* all zero and holds 2^log_rows elements of the requested field, whatever
\* log_rows is, also below the LOG_WIDTH of the packed field.
C25_NewColumnSized ==
    [][ret'.op = "new_column" =>
          /\ ret'.res = "Ok"
          /\ \E e \in writers' :
                /\ e.buf \notin Bufs(writers)
                /\ \A i \in DOMAIN e.w.data : e.w.data[i] = 0
                /\ Len(e.w.data) * Pow2(LOG_WIDTH(e.w.level)) = Pow2(e.w.log_rows)]_vars

(***************************************************************************)
(* Claims about the hint columns and the flushes of the lookup.            *)
(***************************************************************************)
\* The number of the first n rows of slice that carry the value f.
Occurrences(slice, n, f) == Cardinality({j \in 1 .. n : slice[j] = f})

RECURSIVE GenPow(_)
GenPow(k) == IF k = 0 THEN M_ONE ELSE MMul(GenPow(k - 1), M_GEN)

Multiplicity == Col(bld, OracleNamed(bld, "multiplicity"))

PrevIndex == Col(bld, OracleNamed(bld, "prev_index"))

\* C26: after a prover's run, prev_index of the k-th row (from 0) that
\* carries a value is generator^k, and multiplicity of a table row is
\* generator^(number of lookup rows with the row's value): the identity for
\* a table row that no lookup row references.
C26_Multiplicities ==
    (pc = "done" /\ ret.res = "Ok") =>
        /\ \A j \in DOMAIN inp.lookup :
              PrevIndex[j] = GenPow(Occurrences(inp.lookup, j - 1, inp.lookup[j]))
        /\ \A i \in DOMAIN inp.table :
              /\ Multiplicity[i] =
                    GenPow(Occurrences(inp.lookup, Len(inp.lookup), inp.table[i]))
              /\ (\A j \in DOMAIN inp.lookup : inp.lookup[j] # inp.table[i])
                    => Multiplicity[i] = M_ONE

\* A value looked up three times, and a table row that is not looked up.
C26_Witness ==
    /\ pc = "done" /\ ret.res = "Ok"
    /\ Len(inp.lookup) = 4 /\ Len(inp.table) = 2
    /\ Occurrences(inp.lookup, 4, inp.table[1]) = 3
    /\ Occurrences(inp.lookup, 4, inp.table[2]) = 0
    /\ inp.lookup[4] = inp.table[1]
    /\ PrevIndex[4] = MMul(M_GEN, M_GEN)
    /\ Multiplicity = <<MMul(MMul(M_GEN, M_GEN), M_GEN), M_ONE>>

\* The flushes whose tuples start with the column named name, in one
\* direction.
FlushesOf(name, direction) ==
    {f \in DOMAIN bld.flushes :
        /\ bld.flushes[f].oracles[1] = OracleNamed(bld, name)
        /\ bld.flushes[f].direction = direction}

\* The flushes that cover row i of their columns.
Covering(fs, i) == {f \in fs : i <= bld.flushes[f].count}

\* C27: provide flushes each of the table_count table rows, looked up or
\* not, exactly once in each direction: a push of (table value, M::ONE) and
\* a pull of (table value, multiplicity).
C27_ProvideFlushes ==
    (pc = "done" /\ ret.res = "Ok") =>
        /\ \A f \in FlushesOf("u8_mul_table", "Push") \cup FlushesOf("u8_mul_table", "Pull") :
              bld.flushes[f].count = Len(inp.table)
        /\ \A i \in DOMAIN inp.table :
              /\ Cardinality(Covering(FlushesOf("u8_mul_table", "Push"), i)) = 1
              /\ Cardinality(Covering(FlushesOf("u8_mul_table", "Pull"), i)) = 1
              /\ \A f \in FlushesOf("u8_mul_table", "Push") :
                    FlushTuple(bld, <<f, i>>) = <<inp.table[i], M_ONE>>
              /\ \A f \in FlushesOf("u8_mul_table", "Pull") :
                    FlushTuple(bld, <<f, i>>) = <<inp.table[i], Multiplicity[i]>>

\* A table row looked up twice and one that is not looked up.
C27_Witness ==
    /\ pc = "done" /\ ret.res = "Ok"
    /\ Len(inp.table) = 2
    /\ Occurrences(inp.lookup, Len(inp.lookup), inp.table[1]) = 2
    /\ Occurrences(inp.lookup, Len(inp.lookup), inp.table[2]) = 0
    /\ bld.flushes[1].direction = "Push"
    /\ FlushTuple(bld, <<1, 1>>) = <<inp.table[1], M_ONE>>
    /\ bld.flushes[2].direction = "Pull"
    /\ FlushTuple(bld, <<2, 1>>) = <<inp.table[1], MMul(M_GEN, M_GEN)>>
    /\ FlushTuple(bld, <<2, 2>>) = <<inp.table[2], M_ONE>>

\* C27 as stated: every table row is flushed exactly once, by a push of
\* (table value, multiplicity).
C27_AsStated ==
    (pc = "done" /\ ret.res = "Ok") =>
        \A i \in DOMAIN inp.table :
            /\ Cardinality(Covering(FlushesOf("u8_mul_table", "Push")
                                      \cup FlushesOf("u8_mul_table", "Pull"), i)) = 1
            /\ \A f \in FlushesOf("u8_mul_table", "Push") :
                  FlushTuple(bld, <<f, i>>) = <<inp.table[i], Multiplicity[i]>>

\* The multiplicative order of the generator.
GenOrder == MOrder(M_GEN, M_GEN, 1)

\* No value occurs in the lookup column as often as the generator has powers.
BelowOrder ==
    \A j \in DOMAIN inp.lookup :
        Occurrences(inp.lookup, Len(inp.lookup), inp.lookup[j]) < GenOrder

\* C28: require flushes each lookup row once in each direction, a pull of
\* (lookup value, prev_index) and a push of (lookup value, prev_index *
\* generator), and two different lookup rows with the same value pull
\* different tuples and push different tuples, no value occurring as often
\* as the order of the generator.
C28_RequireFlushes ==
    (pc = "done" /\ ret.res = "Ok" /\ BelowOrder) =>
        /\ \A f \in FlushesOf("lookup_values", "Push") \cup FlushesOf("lookup_values", "Pull") :
              bld.flushes[f].count = Len(inp.lookup)
        /\ \A j \in DOMAIN inp.lookup :
              /\ Cardinality(Covering(FlushesOf("lookup_values", "Pull"), j)) = 1
              /\ Cardinality(Covering(FlushesOf("lookup_values", "Push"), j)) = 1
              /\ \A f \in FlushesOf("lookup_values", "Pull") :
                    FlushTuple(bld, <<f, j>>) = <<inp.lookup[j], PrevIndex[j]>>
              /\ \A f \in FlushesOf("lookup_values", "Push") :
                    FlushTuple(bld, <<f, j>>) = <<inp.lookup[j], MMul(PrevIndex[j], M_GEN)>>
        /\ \A j, k \in DOMAIN inp.lookup :
              (j # k /\ inp.lookup[j] = inp.lookup[k]) =>
                 \A f \in FlushesOf("lookup_values", "Push") \cup FlushesOf("lookup_values", "Pull") :
                    FlushTuple(bld, <<f, j>>) # FlushTuple(bld, <<f, k>>)

\* One value in all four lookup rows: four different pulls, four different
\* pushes.
C28_Witness ==
    /\ pc = "done" /\ ret.res = "Ok" /\ BelowOrder
    /\ Len(inp.lookup) = 4
    /\ Occurrences(inp.lookup, 4, inp.lookup[1]) = 4
    /\ Cardinality({FlushTuple(bld, <<3, j>>) : j \in 1 .. 4}) = 4
    /\ Cardinality({FlushTuple(bld, <<4, j>>) : j \in 1 .. 4}) = 4
    /\ bld.flushes[3].direction = "Pull"
    /\ bld.flushes[4].direction = "Push"

\* C29: for every table_count from 1 to the rows of the table column and
\* every lookup_values_count from 1 to the rows of the lookup column, a
\* power of two or not, the prover's call returns Ok and has written the
\* first count rows of multiplicity and prev_index and no other row.
C29_ReducedCounts ==
    pc = "done" =>
        /\ ret.res = "Ok"
        /\ \A i \in DOMAIN Multiplicity :
              IF i <= Len(inp.table)
              THEN Multiplicity[i] =
                      GenPow(Occurrences(inp.lookup, Len(inp.lookup), inp.table[i]))
              ELSE Multiplicity[i] = 0
        /\ \A j \in DOMAIN PrevIndex :
              IF j <= Len(inp.lookup)
              THEN PrevIndex[j] = GenPow(Occurrences(inp.lookup, j - 1, inp.lookup[j]))
              ELSE PrevIndex[j] = 0

(***************************************************************************)
(* Claims about add3, checked under SpecArith.                             *)
(***************************************************************************)
Majority(x, y, z) == IF x + y + z >= 2 THEN 1 ELSE 0

\* C31: add3 returns Ok for every three filled words; the written left
\* column is x XOR y XOR z in every word and satisfies the left relation; the
\* right composition vanishes on a bit exactly when right is the majority of
\* the three input bits, and it vanishes on the written right column; with
\* Flags::Unchecked the result is (x + y + z) mod 2^WordBits in every word.
C31_Add3Reduces ==
    (pc = "arith_done" /\ inp.gadget = "add3") =>
        /\ ret.res = "Ok"
        /\ \A i \in DOMAIN as_slice_u32(Col(bld, OracleNamed(bld, "c::left"))) :
               \A k \in 0 .. (WordBits - 1) :
                   Bit(as_slice_u32(Col(bld, OracleNamed(bld, "c::left")))[i], k)
                       = (Bit(inp.x, k) + Bit(inp.y, k) + Bit(inp.z, k)) % 2
        /\ ConstraintsNamed(bld, "c::left") # {}
        /\ ConstraintsNamed(bld, "c::right") # {}
        /\ \A i \in ConstraintsNamed(bld, "c::left") \cup ConstraintsNamed(bld, "c::right") :
               ConstraintHolds(bld, bld.constraints[i])
        /\ \A i \in ConstraintsNamed(bld, "c::left") :
               bld.constraints[i].oracles
                   = <<ret.xin, ret.yin, ret.zin, OracleNamed(bld, "c::left")>>
        /\ \A i \in ConstraintsNamed(bld, "c::right") :
               bld.constraints[i].oracles
                   = <<ret.xin, ret.yin, ret.zin, OracleNamed(bld, "c::right")>>
        /\ \A x, y, z, r \in {0, 1} :
               (arith_expr("right", <<x, y, z, r>>) = 0) <=> (r = Majority(x, y, z))
        /\ inp.flags = "Unchecked" =>
               \A i \in DOMAIN as_slice_u32(Col(bld, ret.out[1])) :
                   as_slice_u32(Col(bld, ret.out[1]))[i]
                       = (inp.x + inp.y + inp.z) % Pow2(WordBits)

\* An unchecked add3 whose sum wraps and whose majority column is not zero.
C31_Witness ==
    /\ pc = "arith_done"
    /\ inp.gadget = "add3"
    /\ ret.res = "Ok"
    /\ inp.flags = "Unchecked"
    /\ inp.x + inp.y + inp.z >= Pow2(WordBits)
    /\ inp.x # inp.y /\ inp.y # inp.z /\ inp.x # inp.z
    /\ as_slice_u32(Col(bld, OracleNamed(bld, "c::right")))[1] # 0
    /\ as_slice_u32(Col(bld, ret.out[1]))[1] = (inp.x + inp.y + inp.z) % Pow2(WordBits)

\* C35: after a checked add3 the written columns violate at least one of the
\* recorded constraints exactly when x + y + z >= 2^WordBits.
C35_Add3OverflowDetected ==
    (pc = "arith_done" /\ inp.gadget = "add3" /\ inp.flags = "Checked" /\ ret.res = "Ok") =>
        ((\E i \in DOMAIN bld.constraints : ~ConstraintHolds(bld, bld.constraints[i]))
            <=> inp.x + inp.y + inp.z >= Pow2(WordBits))

(***************************************************************************)
(* SpecShard: the witness population of add, into_par_iter().for_each over *)
(* the zip of the five u32 slices, run by several workers.  inp holds the  *)
(* operand slices and the rows each worker is handed, bld the three output *)
(* slices, writers each worker's position (the rows it has finished, the   *)
(* statement of the closure it is at and its local carry), ret the slots   *)
(* the last step read and wrote.                                           *)
(***************************************************************************)
Rows == 1 .. MaxRows
Workers == 1 .. MaxWorkers
ShardWords == {0, 1, Pow2(WordBits) - 1}

\* Mutant of par_item: the cin slice is zipped one row off.
par_item_cin_off(i) ==
    [xin |-> i, yin |-> i, zout |-> i, cout |-> i, cin |-> (i % MaxRows) + 1]

\* The item the zip hands to the closure for row i: element i of each slice.
par_item(i) == [xin |-> i, yin |-> i, zout |-> i, cout |-> i, cin |-> i]

RowsOf(w) == {i \in Rows : inp.owner[i] = w}

\* The row a worker is at: the first of its rows it has not finished.
CurrentRow(w) ==
    CHOOSE i \in RowsOf(w) \ writers[w].finished :
        \A j \in RowsOf(w) \ writers[w].finished : i <= j

ShardInit ==
    /\ pc = "shard_run"
    /\ inp \in [x : [Rows -> ShardWords], y : [Rows -> {1, Pow2(WordBits) - 1}],
                owner : [Rows -> Workers]]
    /\ bld = [zout |-> [i \in Rows |-> 0], cout |-> [i \in Rows |-> 0],
              cin |-> [i \in Rows |-> 0]]
    /\ vbld = ConstraintSystemBuilder_new
    /\ writers = [w \in Workers |-> [finished |-> {}, at |-> "zout", carry |-> 0]]
    /\ ret = [worker |-> 0, reads |-> {}, writes |-> {}]

\* (*zout, carry) = (*xin).overflowing_add(*yin)
ShardZout(w) ==
    /\ pc = "shard_run"
    /\ RowsOf(w) \ writers[w].finished # {}
    /\ writers[w].at = "zout"
    /\ \E it \in {par_item(CurrentRow(w))} :
           /\ bld' = [bld EXCEPT !.zout[it.zout] = (inp.x[it.xin] + inp.y[it.yin]) % Pow2(WordBits)]
           /\ writers' = [writers EXCEPT ![w].at = "cin",
                              ![w].carry = IF inp.x[it.xin] + inp.y[it.yin] >= Pow2(WordBits)
                                           THEN 1 ELSE 0]
           /\ ret' = [worker |-> w, reads |-> {}, writes |-> {<<"zout", it.zout>>}]
    /\ UNCHANGED <<pc, inp, vbld>>

\* *cin = (*xin) ^ (*yin) ^ (*zout)
ShardCin(w) ==
    /\ pc = "shard_run"
    /\ RowsOf(w) \ writers[w].finished # {}
    /\ writers[w].at = "cin"
    /\ \E it \in {par_item(CurrentRow(w))} :
           /\ bld' = [bld EXCEPT !.cin[it.cin] =
                          BitXor(BitXor(inp.x[it.xin], inp.y[it.yin]), bld.zout[it.zout])]
           /\ writers' = [writers EXCEPT ![w].at = "cout"]
           /\ ret' = [worker |-> w, reads |-> {<<"zout", it.zout>>},
                      writes |-> {<<"cin", it.cin>>}]
    /\ UNCHANGED <<pc, inp, vbld>>

\* *cout = ((carry as u32) << 31) | (*cin >> 1), the end of the closure.
ShardCout(w) ==
    /\ pc = "shard_run"
    /\ RowsOf(w) \ writers[w].finished # {}
    /\ writers[w].at = "cout"
    /\ \E it \in {par_item(CurrentRow(w))} :
           /\ bld' = [bld EXCEPT !.cout[it.cout] =
                          BitOr(writers[w].carry * Pow2(WordBits - 1), bld.cin[it.cin] \div 2)]
           /\ writers' = [writers EXCEPT ![w].at = "zout",
                              ![w].finished = @ \cup {CurrentRow(w)}]
           /\ ret' = [worker |-> w, reads |-> {<<"cin", it.cin>>},
                      writes |-> {<<"cout", it.cout>>}]
    /\ UNCHANGED <<pc, inp, vbld>>

\* for_each returns when every worker has finished its rows.
ShardJoin ==
    /\ pc = "shard_run"
    /\ \A w \in Workers : RowsOf(w) \ writers[w].finished = {}
    /\ pc' = "shard_done"
    /\ ret' = [worker |-> 0, reads |-> {}, writes |-> {}]
    /\ UNCHANGED <<inp, bld, vbld, writers>>

ShardNext ==
    \/ \E w \in Workers : ShardZout(w)
    \/ \E w \in Workers : ShardCin(w)
    \/ \E w \in Workers : ShardCout(w)
    \/ ShardJoin

SpecShard == ShardInit /\ [][ShardNext]_vars

\* C32: whatever rows each worker is handed and however the workers' steps
\* interleave, every step writes and reads output slots of the stepping
\* worker's own rows only, and when for_each returns the three columns are
\* those of one sequential pass of the closure over the rows.
C32_ShardingIndependent ==
    /\ pc = "shard_run" =>
           \A a \in ret.reads \cup ret.writes : inp.owner[a[2]] = ret.worker
    /\ pc = "shard_done" =>
           \A i \in Rows :
               /\ bld.zout[i] = add_row(inp.x[i], inp.y[i]).zout
               /\ bld.cout[i] = add_row(inp.x[i], inp.y[i]).cout
               /\ bld.cin[i] = add_row(inp.x[i], inp.y[i]).cin

\* Two workers with rows each: one is stopped in the middle of the closure
\* while the other has finished a row whose sum overflowed.
C32_Witness ==
    /\ pc = "shard_run"
    /\ \E v, w \in Workers :
              /\ v # w
              /\ writers[v].at = "cout"
              /\ writers[v].finished = {}
              /\ writers[w].finished # {}
              /\ RowsOf(v) # {}
    /\ ret.reads # {}
    /\ \E i \in Rows : bld.cout[i] >= Pow2(WordBits - 1)

(***************************************************************************)
(* SpecLasso: the witness loops of the lasso u32add (lasso/u32add.rs).     *)
(* inp holds the byte slices x_ints and y_ints, bld the columns the loops  *)
(* write, ret the loop index and temp_cout.                                *)
(***************************************************************************)
\* 17 in the code: two bytes and the carry bit.
ADD_T_LOG_SIZE == 2 * ByteBits + 1

LIMBS == 4
LassoRows == LIMBS * MaxBlocks
LassoWords == {0, 1, Pow2(LIMBS * ByteBits - 1), Pow2(LIMBS * ByteBits) - 1}

\* The bytes of the words of a column, least significant byte first.
le_bytes(words) ==
    [r \in 1 .. LassoRows |->
        (words[((r - 1) \div LIMBS) + 1] \div Pow2(((r - 1) % LIMBS) * ByteBits)) % Pow2(ByteBits)]

\* Mutant of carry_in: the carry runs on across the blocks.
carry_in_unconfined(i, temp_cout) == temp_cout

\* let cin = if i % 4 == 0 { 0 } else { temp_cout };
carry_in(i, temp_cout) == IF i % 4 = 0 THEN 0 ELSE temp_cout

\* The body of the loop over the rows, for row i (from 0) with bytes x and y.
u32add_row(i, x, y, temp_cout) ==
    Bind(carry_in(i, temp_cout), LAMBDA cin :
    Bind(x + y + cin, LAMBDA xy_sum :
    Bind(xy_sum \div Pow2(ByteBits), LAMBDA cout :
    [cin |-> cin,
     cout |-> cout,
     u_to_t |-> ((x * Pow2(ByteBits) + y) * 2) + cin,
     sum |-> xy_sum % Pow2(ByteBits),
     lookup_u |-> ((((cin * 2 + cout) * Pow2(ByteBits) + x) * Pow2(ByteBits)) + y)
                      * Pow2(ByteBits) + (xy_sum % Pow2(ByteBits))])))

\* The body of the loop over the table, for entry i (from 0).
lookup_t_row(i) ==
    Bind((i \div Pow2(ByteBits + 1)) % Pow2(ByteBits), LAMBDA x :
    Bind((i \div 2) % Pow2(ByteBits), LAMBDA y :
    Bind(i % 2, LAMBDA cin :
    ((((cin * 2 + ((x + y + cin) \div Pow2(ByteBits))) * Pow2(ByteBits) + x)
          * Pow2(ByteBits)) + y) * Pow2(ByteBits) + ((x + y + cin) % Pow2(ByteBits)))))

LassoInit ==
    /\ pc = "lasso_rows"
    /\ \E xs, ys \in [1 .. MaxBlocks -> LassoWords] :
           inp = [x_ints |-> le_bytes(xs), y_ints |-> le_bytes(ys)]
    /\ bld = [sum |-> [r \in 1 .. LassoRows |-> 0],
              cin |-> [r \in 1 .. LassoRows |-> 0],
              cout |-> [r \in 1 .. LassoRows |-> 0],
              lookup_u |-> [r \in 1 .. LassoRows |-> 0],
              u_to_t_mapping |-> [r \in 1 .. LassoRows |-> 0],
              lookup_t |-> [r \in 1 .. Pow2(ADD_T_LOG_SIZE) |-> 0]]
    /\ vbld = ConstraintSystemBuilder_new
    /\ writers = {}
    /\ ret = [i |-> 0, temp_cout |-> 0]

\* One iteration of the loop over izip!(x_ints, y_ints, sum, lookup_u, u_to_t).
LassoRow ==
    /\ pc = "lasso_rows"
    /\ ret.i < LassoRows
    /\ \E row \in {u32add_row(ret.i, inp.x_ints[ret.i + 1], inp.y_ints[ret.i + 1],
                              ret.temp_cout)} :
           /\ bld' = [bld EXCEPT !.sum[ret.i + 1] = row.sum,
                                 !.cin[ret.i + 1] = row.cin,
                                 !.cout[ret.i + 1] = row.cout,
                                 !.lookup_u[ret.i + 1] = row.lookup_u,
                                 !.u_to_t_mapping[ret.i + 1] = row.u_to_t]
           /\ ret' = [i |-> ret.i + 1, temp_cout |-> row.cout]
    /\ UNCHANGED <<pc, inp, vbld, writers>>

\* The loop over lookup_t, after the rows.
LassoTable ==
    /\ pc = "lasso_rows"
    /\ ret.i = LassoRows
    /\ bld' = [bld EXCEPT !.lookup_t = [k \in 1 .. Pow2(ADD_T_LOG_SIZE) |-> lookup_t_row(k - 1)]]
    /\ pc' = "lasso_done"
    /\ UNCHANGED <<inp, vbld, writers, ret>>

LassoNext == LassoRow \/ LassoTable

SpecLasso == LassoInit /\ [][LassoNext]_vars

\* The operand of block k (from 0) that the bytes of a slice spell.
BlockWord(bytes, k) ==
    bytes[LIMBS * k + 1] + Pow2(ByteBits) * bytes[LIMBS * k + 2]
        + Pow2(2 * ByteBits) * bytes[LIMBS * k + 3]
        + Pow2(3 * ByteBits) * bytes[LIMBS * k + 4]

\* C33: in the rows written so far the carry-in of the first byte of every
\* block is 0, the carry-in of each later byte is the carry-out of the byte
\* before it, and the four sum bytes of a finished block are the
\* little-endian bytes of (x + y) mod 2^(4 * ByteBits) of the block's operands.
C33_CarryChainPerBlock ==
    /\ \A r \in 0 .. (ret.i - 1) :
           /\ r % LIMBS = 0 => bld.cin[r + 1] = 0
           /\ r % LIMBS # 0 => bld.cin[r + 1] = bld.cout[r]
    /\ \A k \in 0 .. (MaxBlocks - 1) :
           LIMBS * (k + 1) <= ret.i =>
               BlockWord(bld.sum, k)
                   = (BlockWord(inp.x_ints, k) + BlockWord(inp.y_ints, k))
                         % Pow2(LIMBS * ByteBits)

\* The first block overflowed through all of its bytes and the second block,
\* which started with carry-in 0, carries from its first byte too.
C33_Witness ==
    /\ pc = "lasso_done"
    /\ bld.cout[LIMBS] = 1
    /\ bld.cin[2] = 1
    /\ bld.cin[LIMBS + 1] = 0
    /\ bld.cin[LIMBS + 2] = 1
    /\ BlockWord(bld.sum, 0) = 0

(***************************************************************************)
(* The lookup argument on tables with repeated values, under SpecLookup.   *)
(***************************************************************************)
\* C34: when every lookup row's value is in the table, the flushes of a
\* completed prover-side call balance the channel, also when table rows
\* repeat a value.
C34_BalancedWithRepeats ==
    (pc = "done" /\ ret.res = "Ok" /\ LookupInTable) => ChannelsBalanced(bld)

(***************************************************************************)
(* SpecScope: a caller inside the namespace "outer" adds its columns,      *)
(* calls one gadget of arithmetic/u32.rs and adds an oracle after it, on a *)
(* prover-side or a verifier-side builder.                                 *)
(***************************************************************************)
ScopeGadgets == {"add", "sub", "add3", "mul_const", "constant", "select_bit"}

\* y is the second operand, the constant of mul_const and the value of
\* constant; index is the bit select_bit selects and the log_count of
\* constant; n_vars is the size of select_bit's input.
ScopeInit ==
    /\ pc = "scope_start"
    /\ inp \in {i \in [gadget : ScopeGadgets, flags : {"Checked", "Unchecked"},
                       x : {1, Pow2(WordBits) - 1}, y : 0 .. 3, prover : BOOLEAN,
                       n_vars : {U32_LOG_BITS - 1, U32_LOG_BITS}, index : 0 .. WordBits] :
                    /\ i.gadget # "select_bit" => i.n_vars = U32_LOG_BITS
                    /\ i.gadget = "constant" => i.index \in {0, 2}
                    /\ i.gadget \notin {"select_bit", "constant"} => i.index = 0}
    /\ bld = IF inp.prover THEN ConstraintSystemBuilder_new_with_witness
             ELSE ConstraintSystemBuilder_new
    /\ vbld = ConstraintSystemBuilder_new
    /\ writers = {}
    /\ ret = Idle

\* builder.push_namespace("outer") and the caller's columns.
ScopeEnter ==
    /\ pc = "scope_start"
    /\ \E a \in {IF inp.n_vars = U32_LOG_BITS
                 THEN u32_filled(push_namespace(bld, "outer"), "before", inp.x)
                 ELSE add_committed(push_namespace(bld, "outer"), "before", inp.n_vars,
                                    B1_TOWER_LEVEL)} :
       \E c \in {u32_filled(a.b, "b", inp.y)} :
           /\ bld' = c.b
           /\ ret' = [res |-> "None", xin |-> a.id, yin |-> c.id]
    /\ pc' = "scope_in"
    /\ UNCHANGED <<inp, vbld, writers>>

ScopeGadget ==
    /\ pc = "scope_in"
    /\ \E r \in {CASE inp.gadget = "add" -> add(bld, "g", ret.xin, ret.yin, inp.flags)
                   [] inp.gadget = "sub" -> sub(bld, "g", ret.xin, ret.yin, inp.flags)
                   [] inp.gadget = "add3" ->
                          add3(bld, "g", ret.xin, ret.yin, ret.xin, inp.flags)
                   [] inp.gadget = "mul_const" ->
                          mul_const(bld, "g", ret.xin, inp.y, inp.flags)
                   [] inp.gadget = "constant" -> constant(bld, "g", inp.index, inp.y)
                   [] inp.gadget = "select_bit" ->
                          select_bit(bld, "g", ret.xin, inp.index)} :
           /\ bld' = r.b
           /\ ret' = [res |-> r.res, xin |-> ret.xin, yin |-> ret.yin, out |-> r.out]
    /\ pc' = "scope_called"
    /\ UNCHANGED <<inp, vbld, writers>>

\* The caller adds another oracle after the gadget has returned Ok.
ScopeAfter ==
    /\ pc = "scope_called"
    /\ ret.res = "Ok"
    /\ \E a \in {add_committed(bld, "after", U32_LOG_BITS, B1_TOWER_LEVEL)} :
           /\ bld' = a.b
           /\ ret' = [ret EXCEPT !.out = <<a.id>>]
    /\ pc' = "scope_done"
    /\ UNCHANGED <<inp, vbld, writers>>

ScopeNext == ScopeEnter \/ ScopeGadget \/ ScopeAfter

SpecScope == ScopeInit /\ [][ScopeNext]_vars

\* C37: when add, sub, add3, mul_const or constant returns Ok, the
\* namespace path is the one the caller had before the call, and the oracle
\* the caller adds next has the prefix of the oracle it added before.
C37_NamespaceRestored ==
    (pc \in {"scope_called", "scope_done"} /\ ret.res = "Ok"
        /\ inp.gadget \in {"add", "sub", "add3", "mul_const", "constant"}) =>
        /\ bld.namespace_path = <<"outer">>
        /\ bld.oracles[ret.xin + 1].name = "outer::before"
        /\ pc = "scope_done" => bld.oracles[ret.out[1] + 1].name = "outer::after"

\* A checked mul_const by 3 on a prover: a shift, a nested add and a
\* select_bit inside the gadget's namespace, and the caller's next oracle.
C37_Witness ==
    /\ pc = "scope_done"
    /\ inp.gadget = "mul_const" /\ inp.y = 3 /\ inp.flags = "Checked" /\ inp.prover
    /\ ret.res = "Ok"
    /\ \E i \in DOMAIN bld.oracles : bld.oracles[i].name = "outer::g::add_shl1::zout"
    /\ bld.oracles[ret.out[1] + 1].name = "outer::after"

\* C38: select_bit with index >= WordBits (32 in the code) or with an input
\* of fewer than 5 variables returns an error and leaves the builder as it
\* was: no oracle, constraint or witness column is added.
C38_SelectBitRejects ==
    [][(pc = "scope_in" /\ inp.gadget = "select_bit"
            /\ (inp.index >= WordBits \/ inp.n_vars < U32_LOG_BITS)) =>
          /\ ret'.res \notin {"Ok", "None"}
          /\ bld' = bld]_vars

\* A prover-side select_bit of bit WordBits on a filled column of 5 variables.
C38_Witness ==
    /\ pc = "scope_called"
    /\ inp.gadget = "select_bit"
    /\ inp.prover
    /\ inp.index = WordBits
    /\ inp.n_vars = U32_LOG_BITS
    /\ ret.res = "ensure"
    /\ Len(bld.oracles) = 2
    /\ witness_get(bld.witness, ret.xin, B1_TOWER_LEVEL).err = "Ok"

====
